---- MODULE Spec2Model ----
(***************************************************************************)
(* Model of the wallet-service ledger store (WalletRepository) running     *)
(* against PostgreSQL at its default isolation level (READ COMMITTED).     *)
(*                                                                         *)
(* The committed database is the pair <<wallets, wallet_transactions>>.    *)
(* Every repository call runs on its own connection; a call's transaction  *)
(* keeps its uncommitted row versions and inserts in tx[p] until COMMIT    *)
(* publishes them in one step or a rollback (dropping the sqlx Transaction *)
(* on an early return) discards them.  Row locks (FOR UPDATE, and the lock *)
(* an UPDATE takes on the row it changes) are held to the end of the       *)
(* transaction.                                                            *)
(***************************************************************************)
EXTENDS Integers, FiniteSets, Sequences, TLC

\* ---- bounds of the model ------------------------------------------------
MaxAmount == 2       \* largest amount a request carries
MaxEntries == 2      \* ledger rows after which no further call is started
MaxDeliveries == 2   \* times the stream delivers one event
MaxOffsets == 3      \* payloads in the partition a consumer reads
MaxServed == 1       \* ledger rows after which the handlers take no further request

Procs == {"p1", "p2"}              \* concurrently running callers
UserIds == {"alice"}               \* owners
WalletIds == {1, 2}                \* wallet identities, ordered as the id strings are
Amounts == 1..MaxAmount            \* amounts of the requests issued
NoProc == "none"
Consumers == {"c1", "c2"}          \* projector executions that may overlap

\* ---- row types (models.rs) ------------------------------------------------
Wallet(id, user_id, balance, version) ==
    [id |-> id, user_id |-> user_id, balance |-> balance, version |-> version]

NoWallet == Wallet(0, "", 0, 0)

WalletTransaction(id, wallet_id, amount, transaction_type, status, reference_id) ==
    [id |-> id, wallet_id |-> wallet_id, amount |-> amount,
     transaction_type |-> transaction_type, status |-> status,
     reference_id |-> reference_id]

\* Option<String>::None of reference_id
None == 0

NoTransaction == WalletTransaction(0, 0, 0, "", "", None)

VARIABLES
    wallets,              \* table wallets: id -> committed row
    wallet_transactions,  \* table wallet_transactions: set of committed rows
    rowLock,              \* row lock of each wallet row: holder or NoProc
    pc,                   \* position of each caller in its call
    req,                  \* arguments of the call each caller runs
    tx,                   \* each caller's open transaction and locals
    response,             \* what the call that returned in the last step returned
    funded,               \* per wallet: sum of the amounts of fund calls that returned Ok
    transaction_events,   \* history-service table transaction_events: set of rows
    cpc,                  \* position of each projector execution in process_message
    cmsg,                 \* the event each projector execution is processing
    stored,               \* what the store call that returned in the last step returned
    deliveries,           \* per event: how often the stream has delivered it
    handler,              \* each caller's HTTP handler: its stage and locals
    topic,                \* the event stream: per partition key, the payloads appended
    position,             \* the consumer's position: offset of the next payload it receives
    committed             \* the consumer group's committed offset

vars == <<wallets, wallet_transactions, rowLock, pc, req, tx, response, funded,
          transaction_events, cpc, cmsg, stored, deliveries,
          handler, topic, position, committed>>

\* What the HTTP layer of the wallet service adds to the repository.
service == <<handler, topic>>

\* The wallet service's side and the history service's side.
ledger == <<wallets, wallet_transactions, rowLock, pc, req, tx, response, funded,
            handler, topic>>
history == <<transaction_events, cpc, cmsg, stored, deliveries, position, committed>>

db == <<wallets, wallet_transactions>>

NoReq == [op |-> "", wallet_id |-> 0, from_wallet_id |-> 0, to_wallet_id |-> 0,
          amount |-> 0]

FundReq(wallet_id, amount) ==
    [op |-> "fund", wallet_id |-> wallet_id, from_wallet_id |-> 0, to_wallet_id |-> 0,
     amount |-> amount]

TransferReq(from_wallet_id, to_wallet_id, amount) ==
    [op |-> "transfer", wallet_id |-> 0, from_wallet_id |-> from_wallet_id,
     to_wallet_id |-> to_wallet_id, amount |-> amount]

\* An open sqlx Transaction with the locals of the call that owns it.
NoTx == [wallet |-> NoWallet, from_wallet |-> NoWallet, to_wallet |-> NoWallet,
         updates |-> {}, inserts |-> {}, reference_id |-> None,
         transaction |-> NoTransaction, out_transaction |-> NoTransaction]

\* WalletResult values, tagged with the statement of the call that returned
\* them.
NoResponse == [at |-> "", kind |-> "", wallet |-> NoWallet,
               transactions |-> <<>>, required |-> 0, available |-> 0,
               request |-> NoReq]

Ok(wallet, transactions) ==
    [kind |-> "Ok", wallet |-> wallet, transactions |-> transactions,
     required |-> 0, available |-> 0, request |-> NoReq]

Err(kind) ==
    [kind |-> kind, wallet |-> NoWallet, transactions |-> <<>>,
     required |-> 0, available |-> 0, request |-> NoReq]

\* Err(InvalidAmount(..)) of a call refused at validation, with the arguments
\* the call was made with.
InvalidAmount(request) == [Err("InvalidAmount") EXCEPT !.request = request]

InsufficientBalance(required, available) ==
    [kind |-> "InsufficientBalance", wallet |-> NoWallet, transactions |-> <<>>,
     required |-> required, available |-> available, request |-> NoReq]

Response(at, r) ==
    [at |-> at, kind |-> r.kind, wallet |-> r.wallet,
     transactions |-> r.transactions, required |-> r.required,
     available |-> r.available, request |-> r.request]

\* ---- events and history rows (history-service models.rs) --------------------
\* enum WalletEvent, tagged by eventType; a variant leaves the fields of the
\* other variants at their defaults.
NoEvent == [eventType |-> "", wallet_id |-> 0, user_id |-> "", amount |-> 0,
            new_balance |-> 0, transaction_id |-> None,
            from_wallet_id |-> 0, from_user_id |-> "",
            to_wallet_id |-> 0, to_user_id |-> "", reference_id |-> None]

WalletCreated(wallet_id, user_id) ==
    [NoEvent EXCEPT !.eventType = "WALLET_CREATED", !.wallet_id = wallet_id,
                    !.user_id = user_id]

WalletFunded(wallet_id, user_id, amount, new_balance, transaction_id) ==
    [NoEvent EXCEPT !.eventType = "WALLET_FUNDED", !.wallet_id = wallet_id,
                    !.user_id = user_id, !.amount = amount,
                    !.new_balance = new_balance, !.transaction_id = transaction_id]

TransferCompleted(from_wallet_id, from_user_id, to_wallet_id, to_user_id, amount, reference_id) ==
    [NoEvent EXCEPT !.eventType = "TRANSFER_COMPLETED",
                    !.from_wallet_id = from_wallet_id, !.from_user_id = from_user_id,
                    !.to_wallet_id = to_wallet_id, !.to_user_id = to_user_id,
                    !.amount = amount, !.reference_id = reference_id]

\* WalletEvent::event_type
EventType(event) == event.eventType

\* WalletEvent::wallet_id: the primary wallet, the sender for a transfer
EventWalletId(event) ==
    IF event.eventType = "TRANSFER_COMPLETED" THEN event.from_wallet_id
    ELSE event.wallet_id

\* WalletEvent::user_id
EventUserId(event) ==
    IF event.eventType = "TRANSFER_COMPLETED" THEN event.from_user_id
    ELSE event.user_id

\* WalletEvent::transaction_id: the idempotency key, None for a creation
EventTransactionId(event) ==
    CASE event.eventType = "WALLET_FUNDED" -> event.transaction_id
      [] event.eventType = "TRANSFER_COMPLETED" -> event.reference_id
      [] OTHER -> None

\* WalletEvent::amount: zero for a creation
EventAmount(event) ==
    IF event.eventType = "WALLET_CREATED" THEN 0 ELSE event.amount

\* The events the stream carries: a creation, two funds and a transfer,
\* every key its own (the keys are UUIDs).
Events ==
    {WalletCreated(1, "alice"),
     WalletFunded(1, "alice", 2, 2, 1),
     WalletFunded(1, "alice", 1, 3, 2),
     TransferCompleted(1, "alice", 2, "bob", 1, 3)}

\* struct TransactionEvent: a row of transaction_events
TransactionEvent(id, row_wallet_id, row_user_id, row_amount, row_event_type, row_transaction_id, event_data) ==
    [id |-> id, wallet_id |-> row_wallet_id, user_id |-> row_user_id,
     amount |-> row_amount, event_type |-> row_event_type,
     transaction_id |-> row_transaction_id, event_data |-> event_data]

\* HistoryResult values of the store calls: Ok(Some(row)), Ok(None),
\* Ok(vec![..]) and Err(..), with the event the call was made with.
NoStored == [at |-> "", kind |-> "", records |-> <<>>, event |-> NoEvent]

Stored(at, kind, records, event) ==
    [at |-> at, kind |-> kind, records |-> records, event |-> event]

\* The locals of a handler of handlers.rs: how far it is, the request it
\* serves, the two wallets transfer reads first, what its repository call
\* returned and the event it publishes.
NoHandler == [stage |-> "", request |-> NoReq, from_wallet |-> NoWallet,
              to_wallet |-> NoWallet, returned |-> NoResponse, event |-> NoEvent]

\* What the two services construct at start: empty tables, idle tasks, a
\* consumer at the beginning of its partition.
Constructed ==
    /\ handler = [p \in Procs |-> NoHandler]
    /\ position = 1
    /\ committed = 1
    /\ transaction_events = {}
    /\ cpc = [c \in Consumers |-> "idle"]
    /\ cmsg = [c \in Consumers |-> NoEvent]
    /\ stored = NoStored
    /\ deliveries = [e \in Events |-> 0]
    /\ wallets = [w \in {} |-> NoWallet]
    /\ wallet_transactions = {}
    /\ rowLock = [w \in WalletIds |-> NoProc]
    /\ pc = [p \in Procs |-> "idle"]
    /\ req = [p \in Procs |-> NoReq]
    /\ tx = [p \in Procs |-> NoTx]
    /\ response = NoResponse
    /\ funded = [w \in WalletIds |-> 0]

Init ==
    /\ Constructed
    /\ topic = [k \in WalletIds |-> <<>>]

\* ---- helpers --------------------------------------------------------------
Min(S) == CHOOSE x \in S : \A y \in S : x <= y

\* Uuid::new_v4(): an identifier no row, committed or pending, carries.
UsedTransactionIds ==
    {t.id : t \in wallet_transactions} \cup
    UNION {{t.id : t \in tx[p].inserts} : p \in Procs}

UsedReferenceIds ==
    {t.reference_id : t \in wallet_transactions} \cup
    {tx[p].reference_id : p \in Procs} \cup {None}

\* Transaction ids and reference ids are drawn from the same space of UUIDs,
\* and the history keeps both in one column: no value is ever drawn twice.
UsedIds == UsedTransactionIds \cup UsedReferenceIds

NewTransactionId ==
    LET used == UsedIds
    IN Min((1..(Cardinality(used) + 1)) \ used)

NewReferenceId ==
    LET used == UsedIds \cup {NewTransactionId}
    IN Min((1..(Cardinality(used) + 1)) \ used)

\* A new call is accepted while the ledger is below its bound.
MayStart == Cardinality(wallet_transactions) < MaxEntries

\* The caller's count of fund calls that returned success, as a sum of
\* their amounts.
Account(q, r) ==
    funded' = IF q.op = "fund" /\ r.kind = "Ok"
              THEN [funded EXCEPT ![q.wallet_id] = @ + q.amount] ELSE funded

\* The event a handler builds from what its repository call returned:
\* Variant: the transfer's event names the receiver as the sender.
EventOfSwapped(h, q, r) ==
    IF q.op = "fund"
    THEN WalletFunded(r.wallet.id, r.wallet.user_id, q.amount, r.wallet.balance,
                      r.transactions[1].id)
    ELSE TransferCompleted(h.to_wallet.id, h.to_wallet.user_id,
                           h.from_wallet.id, h.from_wallet.user_id, q.amount,
                           r.transactions[1].reference_id)

\* publish_wallet_funded(&wallet, payload.amount, transaction.id) and
\* publish_transfer_completed(from_wallet.id, from_wallet.user_id,
\* to_wallet.id, to_wallet.user_id, payload.amount, out_txn.reference_id).
EventOf(h, q, r) ==
    IF q.op = "fund"
    THEN WalletFunded(r.wallet.id, r.wallet.user_id, q.amount, r.wallet.balance,
                      r.transactions[1].id)
    ELSE TransferCompleted(h.from_wallet.id, h.from_wallet.user_id,
                           h.to_wallet.id, h.to_wallet.user_id, q.amount,
                           r.transactions[1].reference_id)

\* Variant: the handler goes on to its answer without publishing.
AfterCallNoPublish(h, q, r) ==
    IF h = NoHandler THEN h
    ELSE IF r.kind = "Ok"
         THEN [h EXCEPT !.stage = "acknowledged", !.returned = Response("", r),
                        !.event = EventOf(h, q, r)]
         ELSE NoHandler

\* Variant: the event is published whatever the repository returned.
AfterCallAlwaysPublish(h, q, r) ==
    IF h = NoHandler THEN h
    ELSE [h EXCEPT !.stage = "publish", !.returned = Response("", r),
                   !.event = IF q.op = "fund"
                             THEN WalletFunded(q.wallet_id, "", q.amount, 0, None)
                             ELSE TransferCompleted(h.from_wallet.id, h.from_wallet.user_id,
                                                    h.to_wallet.id, h.to_wallet.user_id,
                                                    q.amount, None)]

\* `.await?` on the repository call inside a handler: an error ends the
\* handler, a result takes it on to the publish.  A call made without a
\* handler (the repository used directly) has none to move.
AfterCall(h, q, r) ==
    IF h = NoHandler THEN h
    ELSE IF r.kind = "Ok"
         THEN [h EXCEPT !.stage = "publish", !.returned = Response("", r),
                        !.event = EventOf(h, q, r)]
         ELSE NoHandler

\* The call p runs returns r: its locals are gone.
Finish(p, r) ==
    /\ response' = Response(pc[p], r)
    /\ Account(req[p], r)
    /\ pc' = [pc EXCEPT ![p] = "idle"]
    /\ tx' = [tx EXCEPT ![p] = NoTx]
    /\ req' = [req EXCEPT ![p] = NoReq]
    /\ handler' = [handler EXCEPT ![p] = AfterCall(handler[p], req[p], r)]
    /\ UNCHANGED topic
    /\ UNCHANGED history

\* A step inside a call that does not return.
Continue(p, label) ==
    /\ pc' = [pc EXCEPT ![p] = label]
    /\ response' = NoResponse
    /\ UNCHANGED <<req, funded>>
    /\ UNCHANGED service
    /\ UNCHANGED history

ReleaseLocks(p) == [w \in WalletIds |-> IF rowLock[w] = p THEN NoProc ELSE rowLock[w]]

\* Variant: the call returns with its row locks still held.
RollbackKeepsLocks(p, r) ==
    /\ Finish(p, r)
    /\ UNCHANGED rowLock
    /\ UNCHANGED db

\* An early return drops the sqlx Transaction: it is rolled back and every
\* row lock it holds is released.
Rollback(p, r) ==
    /\ Finish(p, r)
    /\ rowLock' = ReleaseLocks(p)
    /\ UNCHANGED db

\* tx.commit(): the transaction's row versions and inserts become the
\* committed state in one step; its locks are released.
CommitWallets(p) ==
    [w \in DOMAIN wallets |->
        IF \E u \in tx[p].updates : u.id = w
        THEN LET u == CHOOSE u \in tx[p].updates : u.id = w
             IN [wallets[w] EXCEPT !.balance = u.balance, !.version = u.version]
        ELSE wallets[w]]

Commit(p) ==
    /\ wallets' = CommitWallets(p)
    /\ wallet_transactions' = wallet_transactions \cup tx[p].inserts
    /\ rowLock' = ReleaseLocks(p)

\* Variant: the identity is not fresh, an existing row may be replaced.
CreateWalletAnyId(p, user_id) ==
    /\ pc[p] = "idle"
    /\ Cardinality(DOMAIN wallets) < Cardinality(WalletIds)
    /\ \E wallet_id \in WalletIds :
          LET wallet == Wallet(wallet_id, user_id, 0, 0)
          IN /\ wallets' = [w \in DOMAIN wallets \cup {wallet_id} |->
                               IF w = wallet_id THEN wallet ELSE wallets[w]]
             /\ response' = Response("create", Ok(wallet, <<>>))
    /\ UNCHANGED <<wallet_transactions, rowLock, pc, req, tx, funded>>
    /\ UNCHANGED service
    /\ UNCHANGED history

\* ---- create_wallet --------------------------------------------------------
\* The INSERT of create_wallet, as every caller of it sees it.
CreateWalletCall(p, user_id) ==
    /\ pc[p] = "idle"
    /\ \E wallet_id \in WalletIds \ DOMAIN wallets :
          LET wallet == Wallet(wallet_id, user_id, 0, 0)
          IN /\ wallets' = [w \in DOMAIN wallets \cup {wallet_id} |->
                               IF w = wallet_id THEN wallet ELSE wallets[w]]
             /\ response' = Response("create", Ok(wallet, <<>>))
    /\ UNCHANGED <<wallet_transactions, rowLock, pc, req, tx, funded>>
    /\ UNCHANGED history

\* create_wallet called on the repository directly.
CreateWallet(p, user_id) ==
    /\ CreateWalletCall(p, user_id)
    /\ UNCHANGED service

\* ---- fund_wallet ----------------------------------------------------------
\* Variant: zero passes the validation.
FundAmountNegative(amount) == amount < 0

\* if amount <= Decimal::ZERO
FundAmountInvalid(amount) == amount <= 0

\* Validation, then pool.begin().
FundWalletCall(p, wallet_id, amount) ==
    /\ pc[p] = "idle"
    /\ MayStart
    /\ IF FundAmountInvalid(amount)
       THEN /\ response' = Response("f_validate", InvalidAmount(FundReq(wallet_id, amount)))
            /\ UNCHANGED <<pc, req, tx>>
       ELSE /\ pc' = [pc EXCEPT ![p] = "f_read"]
            /\ req' = [req EXCEPT ![p] = FundReq(wallet_id, amount)]
            /\ tx' = [tx EXCEPT ![p] = NoTx]
            /\ response' = NoResponse
    /\ UNCHANGED <<wallets, wallet_transactions, rowLock, funded>>
    /\ UNCHANGED history

\* fund_wallet called on the repository directly.
FundWallet(p, wallet_id, amount) ==
    /\ FundWalletCall(p, wallet_id, amount)
    /\ UNCHANGED service

\* find_by_id_in_tx: a plain SELECT of the committed row, no lock.
FundRead(p) ==
    /\ pc[p] = "f_read"
    /\ IF req[p].wallet_id \notin DOMAIN wallets
       THEN Rollback(p, Err("WalletNotFound"))
       ELSE /\ tx' = [tx EXCEPT ![p].wallet = wallets[req[p].wallet_id]]
            /\ Continue(p, "f_update")
            /\ UNCHANGED <<wallets, wallet_transactions, rowLock>>

\* let new_balance = wallet.balance + amount
NewBalance(wallet, amount) == wallet.balance + amount

\* Variant: the version is written back as read.
NewVersionSame(wallet) == wallet.version

\* Variant: the version grows by two.
NewVersionByTwo(wallet) == wallet.version + 2

\* let new_version = wallet.version + 1
NewVersion(wallet) == wallet.version + 1

\* Variants of the WHERE clause: without the version test, and one no row passes.
VersionIgnored(row, wallet) == TRUE
VersionNeverMatches(row, wallet) == FALSE

\* The WHERE clause of the conditional write, on the committed row.
VersionMatches(row, wallet) == row.version = wallet.version

\* Variant: the row is written on the pool before the version is compared.
FundUpdateThenCompare(p) ==
    /\ pc[p] = "f_update"
    /\ LET wallet == tx[p].wallet
           new_balance == wallet.balance + req[p].amount
           new_version == wallet.version + 1
       IN IF wallets[wallet.id].version # wallet.version
          THEN /\ wallets' = [wallets EXCEPT ![wallet.id].balance = new_balance]
               /\ Finish(p, Err("OptimisticLockError"))
               /\ rowLock' = ReleaseLocks(p)
               /\ UNCHANGED wallet_transactions
          ELSE /\ rowLock[wallet.id] \in {NoProc, p}
               /\ rowLock' = [rowLock EXCEPT ![wallet.id] = p]
               /\ tx' = [tx EXCEPT ![p].updates =
                            {[id |-> wallet.id, balance |-> new_balance,
                              version |-> new_version]}]
               /\ Continue(p, "f_insert")
               /\ UNCHANGED <<wallets, wallet_transactions>>

\* Variant: the conditional write does not wait for a transaction that holds
\* the row lock.
FundUpdateNoWait(p) ==
    /\ pc[p] = "f_update"
    /\ LET wallet == tx[p].wallet
           new_balance == NewBalance(wallet, req[p].amount)
           new_version == NewVersion(wallet)
       IN IF ~VersionMatches(wallets[wallet.id], wallet)
          THEN Rollback(p, Err("OptimisticLockError"))
          ELSE /\ rowLock' = [rowLock EXCEPT ![wallet.id] = p]
               /\ tx' = [tx EXCEPT ![p].updates =
                            {[id |-> wallet.id, balance |-> new_balance,
                              version |-> new_version]}]
               /\ Continue(p, "f_insert")
               /\ UNCHANGED <<wallets, wallet_transactions>>

\* UPDATE wallets SET balance = $1, version = $2 WHERE id = $3 AND version = $4.
\* The statement sees the committed row.  If its version is not the one read,
\* no row matches.  If it matches but another transaction holds the row lock,
\* the statement waits for that transaction to end and re-checks the row.
FundUpdate(p) ==
    /\ pc[p] = "f_update"
    /\ LET wallet == tx[p].wallet
           new_balance == NewBalance(wallet, req[p].amount)
           new_version == NewVersion(wallet)
       IN IF ~VersionMatches(wallets[wallet.id], wallet)
          THEN Rollback(p, Err("OptimisticLockError"))
          ELSE /\ rowLock[wallet.id] \in {NoProc, p}
               /\ rowLock' = [rowLock EXCEPT ![wallet.id] = p]
               /\ tx' = [tx EXCEPT ![p].updates =
                            {[id |-> wallet.id, balance |-> new_balance,
                              version |-> new_version]}]
               /\ Continue(p, "f_insert")
               /\ UNCHANGED <<wallets, wallet_transactions>>

\* Variant: the ledger row records the new balance instead of the amount.
FundInsertNewBalance(p) ==
    /\ pc[p] = "f_insert"
    /\ LET transaction == WalletTransaction(NewTransactionId, req[p].wallet_id,
                              NewBalance(tx[p].wallet, req[p].amount),
                              "FUND", "COMPLETED", None)
       IN tx' = [tx EXCEPT ![p].inserts = @ \cup {transaction},
                           ![p].transaction = transaction]
    /\ Continue(p, "f_commit")
    /\ UNCHANGED <<wallets, wallet_transactions, rowLock>>

\* create_transaction_in_tx(.., Fund, Completed, None)
FundInsert(p) ==
    /\ pc[p] = "f_insert"
    /\ LET transaction == WalletTransaction(NewTransactionId, req[p].wallet_id,
                              req[p].amount, "FUND", "COMPLETED", None)
       IN tx' = [tx EXCEPT ![p].inserts = @ \cup {transaction},
                           ![p].transaction = transaction]
    /\ Continue(p, "f_commit")
    /\ UNCHANGED <<wallets, wallet_transactions, rowLock>>

FundCommit(p) ==
    /\ pc[p] = "f_commit"
    /\ Commit(p)
    /\ tx' = [tx EXCEPT ![p].updates = {}, ![p].inserts = {}]
    /\ Continue(p, "f_fetch")

\* find_by_id after the commit: the row as committed at that moment.
FundFetch(p) ==
    /\ pc[p] = "f_fetch"
    /\ Finish(p, Ok(wallets[req[p].wallet_id], <<tx[p].transaction>>))
    /\ UNCHANGED <<wallets, wallet_transactions, rowLock>>

\* ---- transfer --------------------------------------------------------------
\* Variant: the sender's row is locked first.
LockSenderFirst(from_wallet_id, to_wallet_id) == <<from_wallet_id, to_wallet_id>>

\* Variant: descending identity.
LockDescending(from_wallet_id, to_wallet_id) ==
    IF from_wallet_id < to_wallet_id
    THEN <<to_wallet_id, from_wallet_id>>
    ELSE <<from_wallet_id, to_wallet_id>>

\* The order in which the two rows are locked: ascending identity.
LockOrder(from_wallet_id, to_wallet_id) ==
    IF from_wallet_id < to_wallet_id
    THEN <<from_wallet_id, to_wallet_id>>
    ELSE <<to_wallet_id, from_wallet_id>>

first_id(p) == LockOrder(req[p].from_wallet_id, req[p].to_wallet_id)[1]
second_id(p) == LockOrder(req[p].from_wallet_id, req[p].to_wallet_id)[2]

\* Variant: a transfer to the same wallet passes the validation.
TransferAmountInvalid(from_wallet_id, to_wallet_id, amount) == amount <= 0

\* if amount <= Decimal::ZERO, if from_wallet_id == to_wallet_id
TransferInvalid(from_wallet_id, to_wallet_id, amount) ==
    amount <= 0 \/ from_wallet_id = to_wallet_id

\* Validation, then pool.begin().
TransferCall(p, from_wallet_id, to_wallet_id, amount) ==
    /\ pc[p] = "idle"
    /\ MayStart
    /\ IF TransferInvalid(from_wallet_id, to_wallet_id, amount)
       THEN /\ response' = Response("t_validate",
                                   InvalidAmount(TransferReq(from_wallet_id, to_wallet_id, amount)))
            /\ UNCHANGED <<pc, req, tx>>
       ELSE /\ pc' = [pc EXCEPT ![p] = "t_lock_first"]
            /\ req' = [req EXCEPT ![p] = TransferReq(from_wallet_id, to_wallet_id, amount)]
            /\ tx' = [tx EXCEPT ![p] = NoTx]
            /\ response' = NoResponse
    /\ UNCHANGED <<wallets, wallet_transactions, rowLock, funded>>
    /\ UNCHANGED history

\* transfer called on the repository directly.
Transfer(p, from_wallet_id, to_wallet_id, amount) ==
    /\ TransferCall(p, from_wallet_id, to_wallet_id, amount)
    /\ UNCHANGED service

\* Variant: a plain SELECT, which waits for nobody.
RowLockIgnored(p, wallet_id) == TRUE

\* lock_wallet_in_tx: SELECT ... FOR UPDATE waits until no other transaction
\* holds the row lock, takes it and returns the committed row.
RowLockFree(p, wallet_id) == rowLock[wallet_id] \in {NoProc, p}

\* let from_wallet = lock_wallet_in_tx(first_id)
TransferLockFirst(p) ==
    /\ pc[p] = "t_lock_first"
    /\ IF first_id(p) \notin DOMAIN wallets
       THEN Rollback(p, Err("WalletNotFound"))
       ELSE /\ RowLockFree(p, first_id(p))
            /\ rowLock' = [rowLock EXCEPT ![first_id(p)] = p]
            /\ tx' = [tx EXCEPT ![p].from_wallet = wallets[first_id(p)]]
            /\ Continue(p, "t_lock_second")
            /\ UNCHANGED db

\* Variant: the rows keep the roles of the locking order.
RolesAsLocked(p, first, second) == <<first, second>>

\* Which of the two locked rows is the sender (they may have been locked in
\* reverse order).
Roles(p, first, second) ==
    IF first.id = req[p].from_wallet_id THEN <<first, second>> ELSE <<second, first>>

\* Variant: a missing second wallet ends the call with the first row still
\* locked.
TransferLockSecondKeepsLock(p) ==
    /\ pc[p] = "t_lock_second"
    /\ IF second_id(p) \notin DOMAIN wallets
       THEN /\ Finish(p, Err("WalletNotFound"))
            /\ UNCHANGED <<db, rowLock>>
       ELSE /\ RowLockFree(p, second_id(p))
            /\ rowLock' = [rowLock EXCEPT ![second_id(p)] = p]
            /\ LET r == Roles(p, tx[p].from_wallet, wallets[second_id(p)])
               IN tx' = [tx EXCEPT ![p].from_wallet = r[1], ![p].to_wallet = r[2]]
            /\ Continue(p, "t_check")
            /\ UNCHANGED db

\* let to_wallet = lock_wallet_in_tx(second_id), then the rows take their roles
TransferLockSecond(p) ==
    /\ pc[p] = "t_lock_second"
    /\ IF second_id(p) \notin DOMAIN wallets
       THEN Rollback(p, Err("WalletNotFound"))
       ELSE /\ RowLockFree(p, second_id(p))
            /\ rowLock' = [rowLock EXCEPT ![second_id(p)] = p]
            /\ LET r == Roles(p, tx[p].from_wallet, wallets[second_id(p)])
               IN tx' = [tx EXCEPT ![p].from_wallet = r[1], ![p].to_wallet = r[2]]
            /\ Continue(p, "t_check")
            /\ UNCHANGED db

\* Variants of the sufficiency test: none at all, and one that rejects an
\* exact balance.
InsufficientNever(from_wallet, amount) == FALSE
InsufficientOrEqual(from_wallet, amount) == from_wallet.balance <= amount

\* if from_wallet.balance < amount
Insufficient(from_wallet, amount) == from_wallet.balance < amount

\* Variant: the receiver is credited, the sender is not debited.
TransferCheckNoDebit(p) ==
    /\ pc[p] = "t_check"
    /\ IF Insufficient(tx[p].from_wallet, req[p].amount)
       THEN Rollback(p, InsufficientBalance(req[p].amount, tx[p].from_wallet.balance))
       ELSE /\ tx' = [tx EXCEPT ![p].to_wallet.balance = @ + req[p].amount]
            /\ Continue(p, "t_update_from")
            /\ UNCHANGED <<wallets, wallet_transactions, rowLock>>

\* The sufficiency check and the new balances.
TransferCheck(p) ==
    /\ pc[p] = "t_check"
    /\ IF Insufficient(tx[p].from_wallet, req[p].amount)
       THEN Rollback(p, InsufficientBalance(req[p].amount, tx[p].from_wallet.balance))
       ELSE /\ tx' = [tx EXCEPT ![p].from_wallet.balance = @ - req[p].amount,
                                ![p].to_wallet.balance = @ + req[p].amount]
            /\ Continue(p, "t_update_from")
            /\ UNCHANGED <<wallets, wallet_transactions, rowLock>>

\* Variant: the UPDATE runs on the pool, outside the transaction.
UpdateWalletOnPool(p, wallet) ==
    /\ rowLock[wallet.id] \in {NoProc, p}
    /\ rowLock' = [rowLock EXCEPT ![wallet.id] = p]
    /\ wallets' = [wallets EXCEPT ![wallet.id].balance = wallet.balance,
                                  ![wallet.id].version = @ + 1]
    /\ UNCHANGED <<wallet_transactions, tx>>

\* Variant: SET balance = $1 only, the version stays.
UpdateWalletKeepsVersion(p, wallet) ==
    /\ rowLock[wallet.id] \in {NoProc, p}
    /\ rowLock' = [rowLock EXCEPT ![wallet.id] = p]
    /\ tx' = [tx EXCEPT ![p].updates = @ \cup
                 {[id |-> wallet.id, balance |-> wallet.balance,
                   version |-> wallets[wallet.id].version]}]
    /\ UNCHANGED db

\* UPDATE wallets SET balance = $1, version = version + 1 WHERE id = $2
\* inside the transaction: a pending row version, the row lock taken or kept.
UpdateWallet(p, wallet) ==
    /\ RowLockFree(p, wallet.id)
    /\ rowLock' = [rowLock EXCEPT ![wallet.id] = p]
    /\ tx' = [tx EXCEPT ![p].updates = @ \cup
                 {[id |-> wallet.id, balance |-> wallet.balance,
                   version |-> wallets[wallet.id].version + 1]}]
    /\ UNCHANGED db

TransferUpdateFrom(p) ==
    /\ pc[p] = "t_update_from"
    /\ UpdateWallet(p, tx[p].from_wallet)
    /\ Continue(p, "t_update_to")

TransferUpdateTo(p) ==
    /\ pc[p] = "t_update_to"
    /\ UpdateWallet(p, tx[p].to_wallet)
    /\ Continue(p, "t_insert_out")

\* reference_id = Uuid::new_v4(); create_transaction_in_tx(.., TransferOut, ..)
TransferInsertOut(p) ==
    /\ pc[p] = "t_insert_out"
    /\ LET reference_id == NewReferenceId
           out_transaction == WalletTransaction(NewTransactionId, tx[p].from_wallet.id,
                                  req[p].amount, "TRANSFER_OUT", "COMPLETED", reference_id)
       IN tx' = [tx EXCEPT ![p].reference_id = reference_id,
                           ![p].inserts = @ \cup {out_transaction},
                           ![p].out_transaction = out_transaction]
    /\ Continue(p, "t_insert_in")
    /\ UNCHANGED <<wallets, wallet_transactions, rowLock>>

\* Variant: the incoming row gets a reference id of its own.
TransferInsertInOwnReference(p) ==
    /\ pc[p] = "t_insert_in"
    /\ LET in_transaction == WalletTransaction(NewTransactionId, tx[p].to_wallet.id,
                                 req[p].amount, "TRANSFER_IN", "COMPLETED",
                                 NewReferenceId)
       IN tx' = [tx EXCEPT ![p].inserts = @ \cup {in_transaction},
                           ![p].transaction = in_transaction]
    /\ Continue(p, "t_commit")
    /\ UNCHANGED <<wallets, wallet_transactions, rowLock>>

\* create_transaction_in_tx(.., TransferIn, ..)
TransferInsertIn(p) ==
    /\ pc[p] = "t_insert_in"
    /\ LET in_transaction == WalletTransaction(NewTransactionId, tx[p].to_wallet.id,
                                 req[p].amount, "TRANSFER_IN", "COMPLETED",
                                 tx[p].reference_id)
       IN tx' = [tx EXCEPT ![p].inserts = @ \cup {in_transaction},
                           ![p].transaction = in_transaction]
    /\ Continue(p, "t_commit")
    /\ UNCHANGED <<wallets, wallet_transactions, rowLock>>

TransferCommit(p) ==
    /\ pc[p] = "t_commit"
    /\ Commit(p)
    /\ Finish(p, Ok(NoWallet, <<tx[p].out_transaction, tx[p].transaction>>))

Next ==
    \/ \E p \in Procs, u \in UserIds : CreateWallet(p, u)
    \/ \E p \in Procs, w \in WalletIds, a \in Amounts : FundWallet(p, w, a)
    \/ \E p \in Procs : FundRead(p)
    \/ \E p \in Procs : FundUpdate(p)
    \/ \E p \in Procs : FundInsert(p)
    \/ \E p \in Procs : FundCommit(p)
    \/ \E p \in Procs : FundFetch(p)
    \/ \E p \in Procs, f \in WalletIds, a \in Amounts :
          \E t \in WalletIds \ {f} : Transfer(p, f, t, a)
    \/ \E p \in Procs : TransferLockFirst(p)
    \/ \E p \in Procs : TransferLockSecond(p)
    \/ \E p \in Procs : TransferCheck(p)
    \/ \E p \in Procs : TransferUpdateFrom(p)
    \/ \E p \in Procs : TransferUpdateTo(p)
    \/ \E p \in Procs : TransferInsertOut(p)
    \/ \E p \in Procs : TransferInsertIn(p)
    \/ \E p \in Procs : TransferCommit(p)

Spec == Init /\ [][Next]_vars

\* ---- storage faults --------------------------------------------------------
TransferTx == {"t_lock_first", "t_lock_second", "t_update_from", "t_update_to",
               "t_insert_out", "t_insert_in", "t_commit"}

\* A statement of transfer's transaction (a lock, an update, an insert, the
\* commit) fails: `?` returns DatabaseError and the dropped transaction is
\* rolled back.
TransferFault(p) ==
    /\ pc[p] \in TransferTx
    /\ Rollback(p, Err("DatabaseError"))

NextFault ==
    \/ Next
    \/ \E p \in Procs : TransferFault(p)

SpecFault == Init /\ [][NextFault]_vars

\* ---- requests that fail validation ------------------------------------------
\* Amounts a caller may send: negative, zero and the valid ones.
AnyAmounts == (-1)..MaxAmount

\* The caller that sends the requests validation refuses.  The callers are
\* interchangeable and a refused call leaves nothing of its caller behind,
\* so one such caller, next to the other caller's calls in flight, reaches
\* every state two would reach, up to exchanging the callers.
Refused == "p2"

\* Next draws the valid requests; the two further disjuncts draw the others.
NextInput ==
    \/ Next
    \/ \E w \in WalletIds, a \in AnyAmounts \ Amounts :
          FundWallet(Refused, w, a)
    \/ \E f \in WalletIds, t \in WalletIds, a \in AnyAmounts :
          /\ f = t \/ a \notin Amounts
          /\ Transfer(Refused, f, t, a)

SpecInput == Init /\ [][NextInput]_vars

\* ---- wallets of several owners ------------------------------------------------
Owners == {"alice", "bob"}

\* create_wallet for any owner, and funds on the wallets created.
NextOwners ==
    \/ \E p \in Procs, u \in Owners : CreateWallet(p, u)
    \/ \E p \in Procs, w \in WalletIds, a \in Amounts : FundWallet(p, w, a)
    \/ \E p \in Procs : FundRead(p)
    \/ \E p \in Procs : FundUpdate(p)
    \/ \E p \in Procs : FundInsert(p)
    \/ \E p \in Procs : FundCommit(p)
    \/ \E p \in Procs : FundFetch(p)

SpecOwners == Init /\ [][NextOwners]_vars

\* ---- wallet-service: the handlers and the publisher ----------------------------
\* WalletEvent::wallet_id of kafka.rs, the key publish gives the record: the
\* wallet of a creation or a fund, the sender of a transfer.
PartitionKey(event) ==
    IF event.eventType = "TRANSFER_COMPLETED" THEN event.from_wallet_id
    ELSE event.wallet_id

\* The amounts the requests to the handlers carry: one valid, one not.
ServiceAmounts == {0, MaxAmount}

MayServe == Cardinality(wallet_transactions) < MaxServed

\* handlers::create_wallet up to the send: repository.create_wallet, then
\* publish_wallet_created(&wallet) builds the event.
HandleCreateWallet(p, user_id) ==
    /\ handler[p] = NoHandler
    /\ CreateWalletCall(p, user_id)
    /\ handler' = [handler EXCEPT ![p] =
                      [NoHandler EXCEPT
                          !.stage = "publish",
                          !.request = [NoReq EXCEPT !.op = "create"],
                          !.returned = [response' EXCEPT !.at = ""],
                          !.event = WalletCreated(response'.wallet.id,
                                                  response'.wallet.user_id)]]
    /\ UNCHANGED topic

\* handlers::fund_wallet calls repository.fund_wallet; a refusal at the
\* validation returns through `?`.
HandleFundWallet(p, wallet_id, amount) ==
    /\ handler[p] = NoHandler
    /\ MayServe
    /\ FundWalletCall(p, wallet_id, amount)
    /\ handler' = IF FundAmountInvalid(amount) THEN handler
                  ELSE [handler EXCEPT ![p] =
                           [NoHandler EXCEPT !.stage = "call",
                                             !.request = FundReq(wallet_id, amount)]]
    /\ UNCHANGED topic

\* find_by_id: a SELECT of the committed row on the pool.
FindById(wallet_id) ==
    IF wallet_id \in DOMAIN wallets THEN Ok(wallets[wallet_id], <<>>)
    ELSE Err("WalletNotFound")

\* A step of a handler outside the repository's write calls and the publisher:
\* it answers r and ends when r is an error, else goes on as h.
HandlerStep(p, at, r, h) ==
    /\ pc[p] = "idle"
    /\ IF r.kind = "Ok"
       THEN /\ handler' = [handler EXCEPT ![p] = h]
            /\ response' = NoResponse
       ELSE /\ handler' = [handler EXCEPT ![p] = NoHandler]
            /\ response' = Response(at, r)
    /\ UNCHANGED <<wallets, wallet_transactions, rowLock, pc, req, tx, funded, topic>>
    /\ UNCHANGED history

\* handlers::transfer, first statement: find_by_id(&from_wallet_id).
HandleTransfer(p, from_wallet_id, to_wallet_id, amount) ==
    /\ handler[p] = NoHandler
    /\ MayServe
    /\ LET r == FindById(from_wallet_id)
       IN HandlerStep(p, "find_from", r,
                      [NoHandler EXCEPT
                          !.stage = "find_to",
                          !.request = TransferReq(from_wallet_id, to_wallet_id, amount),
                          !.from_wallet = r.wallet])

\* find_by_id(&payload.to_wallet_id).
HandleFindTo(p) ==
    /\ handler[p].stage = "find_to"
    /\ LET r == FindById(handler[p].request.to_wallet_id)
       IN HandlerStep(p, "find_to", r,
                      [handler[p] EXCEPT !.stage = "transfer", !.to_wallet = r.wallet])

\* repository.transfer(&from_wallet_id, &payload.to_wallet_id, payload.amount).
HandleTransferCall(p) ==
    /\ handler[p].stage = "transfer"
    /\ LET q == handler[p].request
       IN /\ TransferCall(p, q.from_wallet_id, q.to_wallet_id, q.amount)
          /\ handler' = [handler EXCEPT ![p] =
                            IF TransferInvalid(q.from_wallet_id, q.to_wallet_id, q.amount)
                            THEN NoHandler
                            ELSE [@ EXCEPT !.stage = "call"]]
    /\ UNCHANGED topic

\* A step of the publisher for the handler p: only handler, topic and the
\* response change.
PublisherStep(p) ==
    /\ pc[p] = "idle"
    /\ UNCHANGED <<wallets, wallet_transactions, rowLock, pc, req, tx, funded>>
    /\ UNCHANGED history

\* producer.send: the broker appends the record to the partition of its key
\* and acknowledges it (acks=all).
BrokerAppend(p) ==
    /\ handler[p].stage = "publish"
    /\ PublisherStep(p)
    /\ topic' = [topic EXCEPT ![PartitionKey(handler[p].event)] =
                                  Append(@, handler[p].event)]
    /\ handler' = [handler EXCEPT ![p].stage = "acknowledged"]
    /\ response' = NoResponse

\* Variant: a failed publish is swallowed, the handler answers success.
PublishFailSwallowed(p) ==
    /\ handler[p].stage \in {"publish", "acknowledged"}
    /\ PublisherStep(p)
    /\ handler' = [handler EXCEPT ![p] = NoHandler]
    /\ response' = [handler[p].returned EXCEPT !.at = "respond"]
    /\ UNCHANGED topic

\* The delivery future resolves to Err (a broker error, or message.timeout.ms
\* and the 5 s of send run out, whether or not the record was appended):
\* publish returns KafkaError and `?` returns it from the handler.
PublishFail(p) ==
    /\ handler[p].stage \in {"publish", "acknowledged"}
    /\ PublisherStep(p)
    /\ handler' = [handler EXCEPT ![p] = NoHandler]
    /\ response' = Response("publish", Err("KafkaError"))
    /\ UNCHANGED topic

\* The delivery future resolves to Ok((partition, offset)): publish returns
\* Ok(()) and the handler returns Ok(Json(ApiResponse::success(..))).
Respond(p) ==
    /\ handler[p].stage = "acknowledged"
    /\ PublisherStep(p)
    /\ handler' = [handler EXCEPT ![p] = NoHandler]
    /\ response' = [handler[p].returned EXCEPT !.at = "respond"]
    /\ UNCHANGED topic

NextService ==
    \/ \E p \in Procs, u \in UserIds : HandleCreateWallet(p, u)
    \/ \E p \in Procs, w \in WalletIds, a \in ServiceAmounts : HandleFundWallet(p, w, a)
    \/ \E p \in Procs : FundRead(p)
    \/ \E p \in Procs : FundUpdate(p)
    \/ \E p \in Procs : FundInsert(p)
    \/ \E p \in Procs : FundCommit(p)
    \/ \E p \in Procs : FundFetch(p)
    \/ \E p \in Procs, f \in WalletIds, t \in WalletIds, a \in ServiceAmounts :
          HandleTransfer(p, f, t, a)
    \/ \E p \in Procs : HandleFindTo(p)
    \/ \E p \in Procs : HandleTransferCall(p)
    \/ \E p \in Procs : TransferLockFirst(p)
    \/ \E p \in Procs : TransferLockSecond(p)
    \/ \E p \in Procs : TransferCheck(p)
    \/ \E p \in Procs : TransferUpdateFrom(p)
    \/ \E p \in Procs : TransferUpdateTo(p)
    \/ \E p \in Procs : TransferInsertOut(p)
    \/ \E p \in Procs : TransferInsertIn(p)
    \/ \E p \in Procs : TransferCommit(p)
    \/ \E p \in Procs : TransferFault(p)
    \/ \E p \in Procs : BrokerAppend(p)
    \/ \E p \in Procs : PublishFail(p)
    \/ \E p \in Procs : Respond(p)

SpecService == Init /\ [][NextService]_vars

\* ---- scheduling ------------------------------------------------------------
\* A step of the call p is running.  The runtime keeps polling every task and
\* PostgreSQL grants a row lock to its waiters in the order they queued, so a
\* call whose next statement is enabled again and again eventually runs it.
Step(p) ==
    \/ FundRead(p) \/ FundUpdate(p) \/ FundInsert(p) \/ FundCommit(p) \/ FundFetch(p)
    \/ TransferLockFirst(p) \/ TransferLockSecond(p) \/ TransferCheck(p)
    \/ TransferUpdateFrom(p) \/ TransferUpdateTo(p)
    \/ TransferInsertOut(p) \/ TransferInsertIn(p) \/ TransferCommit(p)

FairSpec == Spec /\ \A p \in Procs : SF_vars(Step(p))

\* ---- history-service: process_message and the store calls --------------------
\* Uuid::new_v4() for a history row.
NewEventId ==
    Min((1..(Cardinality(transaction_events) + 1)) \ {r.id : r \in transaction_events})

\* A step of the projector leaves the wallet service alone; a step that does
\* not return clears the last result.
Proceed(c, label) ==
    /\ cpc' = [cpc EXCEPT ![c] = label]
    /\ stored' = NoStored
    /\ UNCHANGED <<cmsg, deliveries, position, committed>>
    /\ UNCHANGED ledger

\* process_message returns: the result is logged and the message is done.
Return(c, kind, records) ==
    /\ stored' = Stored(cpc[c], kind, records, cmsg[c])
    /\ cpc' = [cpc EXCEPT ![c] = "idle"]
    /\ cmsg' = [cmsg EXCEPT ![c] = NoEvent]
    /\ UNCHANGED <<deliveries, position, committed>>
    /\ UNCHANGED ledger

\* Variants of the idempotency probe: one that finds nothing, and one that
\* looks for rows of the event's own type.
ExistsNever(key) == FALSE
ExistsAsCompleted(key) ==
    \E r \in transaction_events :
        r.transaction_id = key /\ r.event_type = "TRANSFER_COMPLETED"

\* SELECT EXISTS(SELECT 1 FROM transaction_events WHERE transaction_id = $1)
Exists(key) == \E r \in transaction_events : r.transaction_id = key

\* Variants of the store's constraints: none at all.
KeyNeverTaken(row) == FALSE
CreatedNeverTaken(row) == FALSE

\* The uniqueness constraint of the history relation on the idempotency key.
\* A transfer is projected as two rows under one key, an outgoing and an
\* incoming one, so a key is taken per kind of row.
KeyTaken(row) ==
    /\ row.transaction_id # None
    /\ \E r \in transaction_events :
          r.transaction_id = row.transaction_id /\ r.event_type = row.event_type

\* The uniqueness constraint on the natural identifying attribute of an event
\* without key: one creation row per wallet.
CreatedTaken(row) ==
    /\ row.transaction_id = None
    /\ \E r \in transaction_events :
          /\ r.transaction_id = None
          /\ r.wallet_id = row.wallet_id /\ r.event_type = row.event_type

\* INSERT INTO transaction_events ... RETURNING ...: the row is stored unless a
\* constraint rejects it.
Rejected(row) == KeyTaken(row) \/ CreatedTaken(row)

\* process_message dispatches on the event's variant; store_event probes only
\* when the event has a key.  The first statement an event is stored with:
Entry(event) ==
    IF event.eventType = "TRANSFER_COMPLETED" THEN "x_exists"
    ELSE IF EventTransactionId(event) # None THEN "s_exists"
    ELSE "s_insert"

\* consumer.recv() hands a message to process_message.
ProcessMessage(c, event) ==
    /\ cpc[c] = "idle"
    /\ deliveries[event] < MaxDeliveries
    /\ deliveries' = [deliveries EXCEPT ![event] = @ + 1]
    /\ cmsg' = [cmsg EXCEPT ![c] = event]
    /\ cpc' = [cpc EXCEPT ![c] = Entry(event)]
    /\ stored' = NoStored
    /\ UNCHANGED <<transaction_events, position, committed>>
    /\ UNCHANGED ledger

\* store_event: the idempotency check
StoreEventExists(c) ==
    /\ cpc[c] = "s_exists"
    /\ IF Exists(EventTransactionId(cmsg[c]))
       THEN Return(c, "None", <<>>)
       ELSE Proceed(c, "s_insert")
    /\ UNCHANGED transaction_events

\* store_event: the INSERT
StoreEventInsert(c) ==
    /\ cpc[c] = "s_insert"
    /\ LET event == cmsg[c]
           stored_event == TransactionEvent(NewEventId, EventWalletId(event), EventUserId(event),
                               EventAmount(event), EventType(event),
                               EventTransactionId(event), event)
       IN IF Rejected(stored_event)
          THEN /\ Return(c, "DatabaseError", <<>>)
               /\ UNCHANGED transaction_events
          ELSE /\ transaction_events' = transaction_events \cup {stored_event}
               /\ Return(c, "Some", <<stored_event>>)

\* store_transfer_events: the idempotency check on the reference id
StoreTransferExists(c) ==
    /\ cpc[c] = "x_exists"
    /\ IF Exists(cmsg[c].reference_id)
       THEN Return(c, "Vec", <<>>)
       ELSE Proceed(c, "x_insert_out")
    /\ UNCHANGED transaction_events

\* store_transfer_events: Event 1, outgoing from the sender
StoreTransferInsertOut(c) ==
    /\ cpc[c] = "x_insert_out"
    /\ LET event == cmsg[c]
           out_event == TransactionEvent(NewEventId, event.from_wallet_id,
                            event.from_user_id, event.amount, "TRANSFER_OUT",
                            event.reference_id, event)
       IN IF Rejected(out_event)
          THEN /\ Return(c, "DatabaseError", <<>>)
               /\ UNCHANGED transaction_events
          ELSE /\ transaction_events' = transaction_events \cup {out_event}
               /\ Proceed(c, "x_insert_in")

\* Variant: the incoming row is bound to the sender again.
StoreTransferInsertInSender(c) ==
    /\ cpc[c] = "x_insert_in"
    /\ LET event == cmsg[c]
           in_event == TransactionEvent(NewEventId, event.from_wallet_id,
                           event.from_user_id, event.amount, "TRANSFER_IN",
                           event.reference_id, event)
           out_event == CHOOSE r \in transaction_events :
                           r.transaction_id = event.reference_id
                               /\ r.event_type = "TRANSFER_OUT"
       IN IF Rejected(in_event)
          THEN /\ Return(c, "DatabaseError", <<>>)
               /\ UNCHANGED transaction_events
          ELSE /\ transaction_events' = transaction_events \cup {in_event}
               /\ Return(c, "Vec", <<out_event, in_event>>)

\* store_transfer_events: Event 2, incoming to the receiver; Ok(events)
StoreTransferInsertIn(c) ==
    /\ cpc[c] = "x_insert_in"
    /\ LET event == cmsg[c]
           in_event == TransactionEvent(NewEventId, event.to_wallet_id,
                           event.to_user_id, event.amount, "TRANSFER_IN",
                           event.reference_id, event)
           out_event == CHOOSE r \in transaction_events :
                           r.transaction_id = event.reference_id
                               /\ r.event_type = "TRANSFER_OUT"
       IN IF Rejected(in_event)
          THEN /\ Return(c, "DatabaseError", <<>>)
               /\ UNCHANGED transaction_events
          ELSE /\ transaction_events' = transaction_events \cup {in_event}
               /\ Return(c, "Vec", <<out_event, in_event>>)

\* The projector with overlapping executions (redelivery during a rebalance,
\* or two instances).
NextHistory ==
    \/ \E c \in Consumers, e \in Events : ProcessMessage(c, e)
    \/ \E c \in Consumers : StoreEventExists(c)
    \/ \E c \in Consumers : StoreEventInsert(c)
    \/ \E c \in Consumers : StoreTransferExists(c)
    \/ \E c \in Consumers : StoreTransferInsertOut(c)
    \/ \E c \in Consumers : StoreTransferInsertIn(c)

SpecHistory == Init /\ [][NextHistory]_vars

\* One consumer: the deliveries are processed one after the other.
NextSequential ==
    \/ \E e \in Events : ProcessMessage("c1", e)
    \/ StoreEventExists("c1")
    \/ StoreEventInsert("c1")
    \/ StoreTransferExists("c1")
    \/ StoreTransferInsertOut("c1")
    \/ StoreTransferInsertIn("c1")

SpecSequential == Init /\ [][NextSequential]_vars

\* ---- history-service: the consume loop on one partition -----------------------
\* A payload serde_json::from_slice rejects: its tag names no variant.
Malformed == [NoEvent EXCEPT !.eventType = "UNKNOWN"]

\* serde_json::from_slice::<WalletEvent>(payload) is Ok.
WellFormed(payload) ==
    payload.eventType \in {"WALLET_CREATED", "WALLET_FUNDED", "TRANSFER_COMPLETED"}

Payloads == Events \cup {Malformed}

\* The partition the consumer is assigned, and the payloads in it by offset.
Assigned == Min(WalletIds)
Log == topic[Assigned]

\* The partitions a consumer may find: every sequence of payloads up to the
\* bound, duplicates and malformed ones included.
Logs == UNION {[1..n -> Payloads] : n \in 0..MaxOffsets}

InitStream ==
    /\ Constructed
    /\ \E log \in Logs : topic = [k \in WalletIds |-> IF k = Assigned THEN log ELSE <<>>]

\* Variant: a payload that cannot be deserialized stops the loop.
RecvHaltsOnMalformed(c) ==
    /\ cpc[c] = "idle"
    /\ position <= Len(Log)
    /\ position' = position + 1
    /\ LET payload == Log[position]
       IN IF WellFormed(payload)
          THEN /\ cmsg' = [cmsg EXCEPT ![c] = payload]
               /\ cpc' = [cpc EXCEPT ![c] = Entry(payload)]
               /\ stored' = NoStored
          ELSE /\ stored' = Stored("deserialize", "SerializationError", <<>>, NoEvent)
               /\ cpc' = [cpc EXCEPT ![c] = "halted"]
               /\ UNCHANGED cmsg
    /\ UNCHANGED <<transaction_events, deliveries, committed>>
    /\ UNCHANGED ledger

\* One turn of the loop of start: consumer.recv() returns the payload at the
\* consumer's position and moves the position on; process_message
\* deserializes it and, if that fails, returns SerializationError, which the
\* loop logs before it polls again.
Recv(c) ==
    /\ cpc[c] = "idle"
    /\ position <= Len(Log)
    /\ position' = position + 1
    /\ LET payload == Log[position]
       IN IF WellFormed(payload)
          THEN /\ cmsg' = [cmsg EXCEPT ![c] = payload]
               /\ cpc' = [cpc EXCEPT ![c] = Entry(payload)]
               /\ stored' = NoStored
          ELSE /\ stored' = Stored("deserialize", "SerializationError", <<>>, NoEvent)
               /\ UNCHANGED <<cpc, cmsg>>
    /\ UNCHANGED <<transaction_events, deliveries, committed>>
    /\ UNCHANGED ledger

\* enable.auto.commit: the client commits, on its timer, the offsets of the
\* messages it has handed to the application.
AutoCommit ==
    /\ committed # position
    /\ committed' = position
    /\ stored' = NoStored
    /\ UNCHANGED <<transaction_events, cpc, cmsg, deliveries, position>>
    /\ UNCHANGED ledger

StoreStatements == {"s_exists", "s_insert", "x_exists", "x_insert_out", "x_insert_in"}

\* A statement of store_event or store_transfer_events fails: `?` returns
\* DatabaseError through process_message to the loop, which logs it.
StoreFault(c) ==
    /\ cpc[c] \in StoreStatements
    /\ Return(c, "DatabaseError", <<>>)
    /\ UNCHANGED transaction_events

\* The steps of the consumer task.
Consume(c) ==
    \/ Recv(c)
    \/ StoreEventExists(c)
    \/ StoreEventInsert(c)
    \/ StoreTransferExists(c)
    \/ StoreTransferInsertOut(c)
    \/ StoreTransferInsertIn(c)

NextStream ==
    \/ Recv("c1")
    \/ StoreEventExists("c1")
    \/ StoreEventInsert("c1")
    \/ StoreTransferExists("c1")
    \/ StoreTransferInsertOut("c1")
    \/ StoreTransferInsertIn("c1")
    \/ AutoCommit

SpecStream == InitStream /\ [][NextStream]_vars

\* The runtime keeps polling the consumer task.
FairStream == SpecStream /\ WF_vars(Consume("c1"))

NextStreamFault ==
    \/ NextStream
    \/ StoreFault("c1")

SpecStreamFault == InitStream /\ [][NextStreamFault]_vars

\* The runtime keeps polling the consumer task; a store statement fails at
\* most once per payload received, so the failures are transient.
FairStreamFault == SpecStreamFault /\ WF_vars(Consume("c1"))

\* The process dies inside a store call: what it has inserted stays, the
\* message in hand is not finished and nothing is returned.
Crash(c) ==
    /\ cpc[c] \in StoreStatements
    /\ cpc' = [cpc EXCEPT ![c] = "idle"]
    /\ cmsg' = [cmsg EXCEPT ![c] = NoEvent]
    /\ stored' = NoStored
    /\ UNCHANGED <<transaction_events, deliveries, position, committed>>
    /\ UNCHANGED ledger

\* One consumer whose store statements may fail and which may die at any of
\* them; the stream delivers every event again, up to MaxDeliveries times.
NextHistoryFault ==
    \/ NextSequential
    \/ StoreFault("c1")
    \/ Crash("c1")

SpecHistoryFault == Init /\ [][NextHistoryFault]_vars

\* ---- the two services together ------------------------------------------------
\* The wallet service serves two clients, one that opens and funds wallets
\* and one that transfers, and publishes; the consumer task of the history
\* service reads the partition it is assigned and stores what it receives.
NextEndToEnd ==
    \/ \E u \in UserIds : HandleCreateWallet("p1", u)
    \/ \E w \in WalletIds, a \in ServiceAmounts : HandleFundWallet("p1", w, a)
    \/ FundRead("p1")
    \/ FundUpdate("p1")
    \/ FundInsert("p1")
    \/ FundCommit("p1")
    \/ FundFetch("p1")
    \/ \E f \in WalletIds, t \in WalletIds, a \in ServiceAmounts :
          HandleTransfer("p2", f, t, a)
    \/ HandleFindTo("p2")
    \/ HandleTransferCall("p2")
    \/ TransferLockFirst("p2")
    \/ TransferLockSecond("p2")
    \/ TransferCheck("p2")
    \/ TransferUpdateFrom("p2")
    \/ TransferUpdateTo("p2")
    \/ TransferInsertOut("p2")
    \/ TransferInsertIn("p2")
    \/ TransferCommit("p2")
    \/ \E p \in Procs : BrokerAppend(p)
    \/ \E p \in Procs : PublishFail(p)
    \/ \E p \in Procs : Respond(p)
    \/ Consume("c1")
    \/ StoreFault("c1")

SpecEndToEnd == Init /\ [][NextEndToEnd]_vars

\* ==== properties ===========================================================
\* The ledger shows no transfer on wallet w.
NoTransferOn(w) ==
    \A t \in wallet_transactions : t.wallet_id = w => t.transaction_type = "FUND"

FundInFlight(w) == \E p \in Procs : req[p].op = "fund" /\ req[p].wallet_id = w

\* The rows a commit adds to the ledger.
NewRows == wallet_transactions' \ wallet_transactions

\* C1: when the concurrent fund calls on a wallet have all returned, its
\* committed balance is its balance at creation plus the amounts of exactly
\* the calls that returned success: no increment is lost or applied twice.
C1_FundsNeitherLostNorDoubled ==
    \A w \in DOMAIN wallets :
        (NoTransferOn(w) /\ ~FundInFlight(w)) => wallets[w].balance = 0 + funded[w]

\* The last of the fund calls that raced on a wallet has just returned, a
\* loser of the race; others succeeded.  (No other wallet was ever changed,
\* so the lost race was on this one.)
C1_Witness ==
    \E w \in DOMAIN wallets :
        /\ NoTransferOn(w) /\ ~FundInFlight(w)
        /\ response.kind = "OptimisticLockError"
        /\ \A v \in DOMAIN wallets \ {w} : wallets[v].version = 0
        /\ funded[w] >= 2

\* C2: every committed wallet balance is >= 0.
C2_BalanceNeverNegative == \A w \in DOMAIN wallets : wallets[w].balance >= 0

\* A committed transfer debit that took its wallet to exactly zero.
C2_Witness ==
    \E t \in wallet_transactions :
        t.transaction_type = "TRANSFER_OUT" /\ wallets[t.wallet_id].balance = 0

\* The row whose lock the next statement of p needs, 0 if none.
Wants(p) ==
    CASE pc[p] = "t_lock_first" -> first_id(p)
      [] pc[p] = "t_lock_second" -> second_id(p)
      [] pc[p] = "t_update_from" -> tx[p].from_wallet.id
      [] pc[p] = "t_update_to" -> tx[p].to_wallet.id
      [] pc[p] = "f_update" /\ VersionMatches(wallets[req[p].wallet_id], tx[p].wallet)
            -> req[p].wallet_id
      [] OTHER -> 0

WaitsFor(p, q) == p # q /\ Wants(p) \in WalletIds /\ rowLock[Wants(p)] = q

WaitsForChain(p, q) ==
    \E n \in 1..Cardinality(Procs) :
        \E path \in [1..(n + 1) -> Procs] :
            /\ path[1] = p
            /\ path[n + 1] = q
            /\ \A i \in 1..n : WaitsFor(path[i], path[i + 1])

NoCircularWait == \A p \in Procs : ~WaitsForChain(p, p)

\* C3: no set of running transfer and fund calls is ever in a circular wait
\* on row locks, and under fair scheduling every started transfer returns
\* (committed or aborted): a caller is again and again not inside a transfer,
\* which is (req[p].op = "transfer") ~> (req[p].op # "transfer").
C3_NoDeadlock ==
    /\ []NoCircularWait
    /\ \A p \in Procs : []<>(req[p].op # "transfer")

\* Two transfers over one wallet pair in opposite directions, one waiting for
\* a row lock the other holds.
C3_Witness ==
    \E p \in Procs, q \in Procs :
        /\ req[p].op = "transfer" /\ req[q].op = "transfer"
        /\ req[p].from_wallet_id = req[q].to_wallet_id
        /\ req[p].to_wallet_id = req[q].from_wallet_id
        /\ WaitsFor(p, q)

\* The four effects of the transfer p commits, with both version increments.
TransferEffects(p) ==
    LET A == req[p].from_wallet_id
        B == req[p].to_wallet_id
        a == req[p].amount
    IN /\ wallets'[A].balance = wallets[A].balance - a
       /\ wallets'[B].balance = wallets[B].balance + a
       /\ wallets'[A].version = wallets[A].version + 1
       /\ wallets'[B].version = wallets[B].version + 1
       /\ Cardinality(NewRows) = 2
       /\ \E t \in NewRows : t.transaction_type = "TRANSFER_OUT" /\ t.wallet_id = A
       /\ \E t \in NewRows : t.transaction_type = "TRANSFER_IN" /\ t.wallet_id = B

\* C4: a transfer is all-or-nothing: its commit publishes all four effects
\* and both version increments at once, and every other step of a transfer,
\* a failure after the locks are taken included (insufficient balance, a
\* failed update, insert or commit), leaves wallets and ledger as they were.
C4_TransferAllOrNothing ==
    [][\A p \in Procs :
          (req[p].op = "transfer" /\ pc'[p] # pc[p]) =>
              IF pc[p] = "t_commit" /\ response'.kind = "Ok"
              THEN TransferEffects(p)
              ELSE UNCHANGED db]_vars

\* A transfer that failed on a storage fault after its first update.
C4_Witness ==
    /\ response.kind = "DatabaseError"
    /\ response.at \in {"t_update_to", "t_insert_out", "t_insert_in", "t_commit"}

\* C5: a successful transfer(A,B,a) debits A by exactly a, credits B by
\* exactly a and adds exactly one TransferOut row on A and one TransferIn row
\* on B, both of amount a and sharing one reference id no earlier row has,
\* whichever of A and B was locked first.
C5_TransferExact ==
    [][\A p \in Procs :
          (pc[p] = "t_commit" /\ pc'[p] = "idle" /\ response'.kind = "Ok") =>
              LET A == req[p].from_wallet_id
                  B == req[p].to_wallet_id
                  a == req[p].amount
              IN /\ wallets'[A].balance = wallets[A].balance - a
                 /\ wallets'[B].balance = wallets[B].balance + a
                 /\ \E out \in NewRows, in \in NewRows :
                       /\ NewRows = {out, in}
                       /\ out.transaction_type = "TRANSFER_OUT"
                       /\ out.wallet_id = A /\ out.amount = a
                       /\ in.transaction_type = "TRANSFER_IN"
                       /\ in.wallet_id = B /\ in.amount = a
                       /\ out.reference_id = in.reference_id
                       /\ out.reference_id # None
                       /\ \A t \in wallet_transactions :
                             t.reference_id # out.reference_id
                       /\ response'.transactions = <<out, in>>]_vars

\* A transfer succeeded whose sender sorts after its receiver (the receiver
\* was locked first).
C5_Witness ==
    /\ response.kind = "Ok"
    /\ response.at = "t_commit"
    /\ response.transactions[1].wallet_id > response.transactions[2].wallet_id

\* C6: a transfer whose sender holds less than the amount when the check runs
\* (both rows locked) fails with InsufficientBalance{required: the amount,
\* available: the sender's balance}, changing no wallet and no ledger row;
\* with a sufficient balance it does not fail so.
C6_InsufficientBalance ==
    [][\A p \in Procs :
          (pc[p] = "t_check" /\ pc'[p] # "t_check") =>
              LET A == req[p].from_wallet_id
                  a == req[p].amount
              IN IF wallets[A].balance < a
                 THEN /\ response'.kind = "InsufficientBalance"
                      /\ response'.required = a
                      /\ response'.available = wallets[A].balance
                      /\ UNCHANGED db
                 ELSE response'.kind # "InsufficientBalance"]_vars

\* A transfer was refused although its sender held some money.
C6_Witness ==
    /\ response.kind = "InsufficientBalance"
    /\ response.available > 0
    /\ response.required > response.available

\* C7: when the sufficiency check runs, the transfer holds both row locks and
\* the sender row it tests is the committed row, so concurrent transfers out
\* of one wallet are tested one after the other and a transfer that passed
\* the check never debits more than the balance.
C7_CheckOnLockedBalance ==
    \A p \in Procs :
        LET A == req[p].from_wallet_id
            B == req[p].to_wallet_id
        IN /\ pc[p] = "t_check" =>
                /\ rowLock[A] = p /\ rowLock[B] = p
                /\ tx[p].from_wallet = wallets[A]
                /\ tx[p].to_wallet = wallets[B]
           /\ pc[p] \in {"t_update_from", "t_update_to", "t_insert_out",
                         "t_insert_in", "t_commit"} =>
                /\ rowLock[A] = p
                /\ tx[p].from_wallet.balance = wallets[A].balance - req[p].amount
                /\ tx[p].from_wallet.balance >= 0

\* Two transfers out of one wallet that cannot both be paid: one is at the
\* check, the other waits for the sender's row.
C7_Witness ==
    \E p \in Procs, q \in Procs :
        /\ pc[p] = "t_check" /\ req[q].op = "transfer"
        /\ req[q].from_wallet_id = req[p].from_wallet_id
        /\ WaitsFor(q, p)
        /\ wallets[req[p].from_wallet_id].balance >= req[p].amount
        /\ wallets[req[p].from_wallet_id].balance >= req[q].amount
        /\ wallets[req[p].from_wallet_id].balance < req[p].amount + req[q].amount

\* C8: without storage faults, a fund on an existing wallet fails with
\* OptimisticLockError exactly when a committed mutation changed the wallet's
\* version between its read and its conditional write; it fails in no other
\* way; and when a fund loses the race on a wallet that only funds touch, a
\* fund on it has succeeded or has committed and is about to.
C8_OptimisticLockExactly ==
    [][\A p \in Procs :
          LET w == req[p].wallet_id
          IN /\ (pc[p] = "f_update" /\ pc'[p] # "f_update") =>
                   ((response'.kind = "OptimisticLockError")
                       <=> (wallets[w].version # tx[p].wallet.version))
             /\ (req[p].op = "fund" /\ pc'[p] = "idle" /\ w \in DOMAIN wallets) =>
                   response'.kind \in {"Ok", "OptimisticLockError"}
             /\ (pc[p] = "f_update" /\ response'.kind = "OptimisticLockError"
                    /\ pc'[p] = "idle" /\ NoTransferOn(w)) =>
                   \/ funded[w] > 0
                   \/ \E q \in Procs : pc[q] = "f_fetch" /\ req[q].wallet_id = w]_vars

\* A fund call has just lost the race against a fund that returned success.
C8_Witness ==
    /\ response.kind = "OptimisticLockError"
    /\ \E w \in DOMAIN wallets :
          /\ NoTransferOn(w) /\ funded[w] > 0
          /\ \A v \in DOMAIN wallets \ {w} : wallets[v].version = 0

\* C9: a fund that fails with OptimisticLockError leaves no trace: no step of
\* it changed a wallet or the ledger, and on its return its transaction is
\* gone and it holds no row lock.
C9_LockErrorLeavesNoTrace ==
    [][\A p \in Procs :
          /\ (pc[p] \in {"f_read", "f_update", "f_insert"} /\ pc'[p] # pc[p]) =>
                UNCHANGED db
          /\ (pc[p] = "f_update" /\ response'.kind = "OptimisticLockError"
                 /\ pc'[p] = "idle") =>
                /\ UNCHANGED db
                /\ tx'[p] = NoTx
                /\ \A w \in WalletIds : rowLock'[w] # p]_vars

\* A fund failed with OptimisticLockError on a wallet that holds money.
C9_Witness ==
    /\ response.kind = "OptimisticLockError"
    /\ response.at = "f_update"
    /\ \E w \in DOMAIN wallets : wallets[w].balance > 0

\* C10: the commit of a fund(w,a) sets w.balance to the balance it read plus
\* a and w.version to the version it read plus 1, adds exactly one ledger
\* row (Fund, Completed, amount a, wallet w, no reference id) and changes no
\* other wallet; the call then returns success.
C10_FundExact ==
    [][\A p \in Procs :
          /\ (pc[p] = "f_commit" /\ pc'[p] = "f_fetch") =>
                LET w == req[p].wallet_id
                    a == req[p].amount
                IN /\ wallets'[w].balance = tx[p].wallet.balance + a
                   /\ wallets'[w].balance = wallets[w].balance + a
                   /\ wallets'[w].version = tx[p].wallet.version + 1
                   /\ wallets'[w].version = wallets[w].version + 1
                   /\ \A v \in DOMAIN wallets \ {w} : wallets'[v] = wallets[v]
                   /\ NewRows = {WalletTransaction(tx[p].transaction.id, w, a,
                                                   "FUND", "COMPLETED", None)}
          /\ (pc[p] = "f_fetch" /\ pc'[p] = "idle") => response'.kind = "Ok"]_vars

\* A fund returned success.
C10_Witness ==
    /\ response.kind = "Ok"
    /\ response.at = "f_fetch"
    /\ response.wallet.balance > 0

\* The store as a call sees and changes it: both tables, the row locks and
\* every caller's position, arguments and transaction.
store == <<wallets, wallet_transactions, rowLock, pc, req, tx>>

\* C11: a fund with amount <= 0 (zero included) is refused with InvalidAmount
\* at validation, before any statement runs: no transaction is opened, no
\* row is read, locked or written, whether or not the wallet exists; and no
\* fund with such an amount gets past validation.
C11_FundInvalidAmount ==
    [][/\ (response'.at = "f_validate") =>
              /\ response'.kind = "InvalidAmount"
              /\ response'.request.amount <= 0
              /\ UNCHANGED store
       /\ \A p \in Procs :
              (pc[p] = "idle" /\ pc'[p] = "f_read") => req'[p].amount > 0]_vars

\* A fund of zero was refused while a wallet holds money; the wallet named is
\* that funded wallet or one that does not exist.
C11_Witness ==
    /\ response.at = "f_validate"
    /\ response.kind = "InvalidAmount"
    /\ response.request.amount = 0
    /\ \E w \in DOMAIN wallets : wallets[w].balance > 0
    /\ \/ response.request.wallet_id \notin DOMAIN wallets
       \/ wallets[response.request.wallet_id].balance > 0

\* C12: a transfer with amount <= 0 or from = to is refused with
\* InvalidAmount at validation, before any lock is taken or anything is
\* changed, whatever the balances; no such transfer gets past validation.
C12_TransferInvalid ==
    [][/\ (response'.at = "t_validate") =>
              /\ response'.kind = "InvalidAmount"
              /\ \/ response'.request.amount <= 0
                 \/ response'.request.from_wallet_id = response'.request.to_wallet_id
              /\ UNCHANGED store
       /\ \A p \in Procs :
              (pc[p] = "idle" /\ pc'[p] = "t_lock_first") =>
                  /\ req'[p].amount > 0
                  /\ req'[p].from_wallet_id # req'[p].to_wallet_id]_vars

\* transfer(A,A,a) was refused although A holds at least a.
C12_Witness ==
    /\ response.at = "t_validate"
    /\ response.kind = "InvalidAmount"
    /\ response.request.amount > 0
    /\ response.request.from_wallet_id = response.request.to_wallet_id
    /\ response.request.from_wallet_id \in DOMAIN wallets
    /\ wallets[response.request.from_wallet_id].balance >= response.request.amount

\* C13: a wallet's version never decreases and grows by exactly 1 with every
\* committed mutation of the wallet: a fund's commit raises the version of
\* its wallet, a transfer's commit that of sender and receiver, by 1 each;
\* every other wallet and every other step (a failed call included) leaves
\* the version, and with it the row, as it was.
C13_VersionGrowsByOne ==
    [][\A w \in DOMAIN wallets :
          LET grown == wallets'[w].version - wallets[w].version
              touched ==
                  \E p \in Procs :
                      \/ /\ pc[p] = "f_commit" /\ pc'[p] = "f_fetch"
                         /\ req[p].wallet_id = w
                      \/ /\ pc[p] = "t_commit" /\ pc'[p] = "idle"
                         /\ response'.kind = "Ok"
                         /\ w \in {req[p].from_wallet_id, req[p].to_wallet_id}
          IN /\ grown \in {0, 1}
             /\ touched <=> (grown = 1)
             /\ (grown = 0) => (wallets'[w] = wallets[w])]_vars

\* Two funds on a new wallet: the second returns the wallet at version 2.
C13_Witness ==
    /\ response.kind = "Ok"
    /\ response.at = "f_fetch"
    /\ response.wallet.version = 2
    /\ NoTransferOn(response.wallet.id)

\* The ledger rows of one kind that carry one reference id.
Paired(transaction_type, reference_id) ==
    {u \in wallet_transactions :
        u.transaction_type = transaction_type /\ u.reference_id = reference_id}

\* C14: in every committed ledger each TransferOut row has exactly one
\* TransferIn row with its reference id and each TransferIn row exactly one
\* TransferOut row, the two of equal amount and on different wallets, both
\* added by one commit; a Fund row has no reference id.
C14_TransferPairs ==
    /\ [](\A t \in wallet_transactions :
             IF t.transaction_type = "FUND"
             THEN t.reference_id = None
             ELSE /\ t.reference_id # None
                  /\ Cardinality(Paired("TRANSFER_OUT", t.reference_id)) = 1
                  /\ Cardinality(Paired("TRANSFER_IN", t.reference_id)) = 1
                  /\ \A u \in wallet_transactions :
                        (u.reference_id = t.reference_id /\ u # t) =>
                            /\ u.amount = t.amount
                            /\ u.wallet_id # t.wallet_id
                            /\ u.transaction_type # t.transaction_type)
    /\ [][\A t \in NewRows :
              t.transaction_type # "FUND" =>
                  \E u \in NewRows : u # t /\ u.reference_id = t.reference_id]_vars

\* Two committed transfers: two pairs with different reference ids.
C14_Witness ==
    \E t \in wallet_transactions, u \in wallet_transactions :
        /\ t.transaction_type = "TRANSFER_OUT"
        /\ u.transaction_type = "TRANSFER_OUT"
        /\ t.reference_id # u.reference_id

RECURSIVE SumAmounts(_)
\* The sum of the amounts of a set of ledger rows.
SumAmounts(rows) ==
    IF rows = {} THEN 0
    ELSE LET t == CHOOSE t \in rows : TRUE
         IN t.amount + SumAmounts(rows \ {t})

RowsOf(w, transaction_types) ==
    {t \in wallet_transactions :
        t.wallet_id = w /\ t.transaction_type \in transaction_types}

\* C15: in every committed state each wallet's balance is the sum of the
\* amounts of its Fund and TransferIn rows minus the sum of the amounts of
\* its TransferOut rows.
C15_BalanceIsLedgerSum ==
    \A w \in DOMAIN wallets :
        wallets[w].balance =
            SumAmounts(RowsOf(w, {"FUND", "TRANSFER_IN"}))
                - SumAmounts(RowsOf(w, {"TRANSFER_OUT"}))

\* A wallet with rows of all three kinds that still holds money.
C15_Witness ==
    \E w \in DOMAIN wallets :
        /\ RowsOf(w, {"FUND"}) # {}
        /\ RowsOf(w, {"TRANSFER_IN"}) # {}
        /\ RowsOf(w, {"TRANSFER_OUT"}) # {}
        /\ wallets[w].balance > 0

\* The history rows kept under one idempotency key.
RecordsOf(key) == {r \in transaction_events : r.transaction_id = key}

\* No projector execution is processing the event.
Settled(event) == \A c \in Consumers : cmsg[c] # event

\* An execution of process_message returns in this step.
Returns(c) == cpc[c] # "idle" /\ cpc'[c] = "idle"

\* C16: a WalletFunded event delivered twice or more in sequence leaves
\* exactly one history row with its transaction id: every delivery after the
\* first finds the key at the check, inserts nothing and returns no record.
C16_FundedRedelivery ==
    /\ [](\A e \in Events :
             (e.eventType = "WALLET_FUNDED" /\ deliveries[e] >= 1 /\ Settled(e)) =>
                 Cardinality(RecordsOf(e.transaction_id)) = 1)
    /\ [][\A c \in Consumers :
              (Returns(c) /\ cmsg[c].eventType = "WALLET_FUNDED"
                  /\ deliveries[cmsg[c]] >= 2) =>
                  /\ stored'.at = "s_exists"
                  /\ stored'.kind = "None"
                  /\ stored'.records = <<>>
                  /\ UNCHANGED transaction_events]_vars

\* The second delivery of a WalletFunded event has just been skipped.
C16_Witness ==
    /\ stored.kind = "None"
    /\ stored.event.eventType = "WALLET_FUNDED"
    /\ deliveries[stored.event] = 2
    /\ Cardinality(RecordsOf(stored.event.transaction_id)) = 1

\* C17: a TransferCompleted event delivered twice or more in sequence leaves
\* exactly two history rows with its reference id: every delivery after the
\* first inserts nothing and returns the empty list.
C17_TransferRedelivery ==
    /\ [](\A e \in Events :
             (e.eventType = "TRANSFER_COMPLETED" /\ deliveries[e] >= 1 /\ Settled(e)) =>
                 Cardinality(RecordsOf(e.reference_id)) = 2)
    /\ [][\A c \in Consumers :
              (Returns(c) /\ cmsg[c].eventType = "TRANSFER_COMPLETED"
                  /\ deliveries[cmsg[c]] >= 2) =>
                  /\ stored'.at = "x_exists"
                  /\ stored'.kind = "Vec"
                  /\ stored'.records = <<>>
                  /\ UNCHANGED transaction_events]_vars

\* The second delivery of a TransferCompleted event has just been skipped.
C17_Witness ==
    /\ stored.kind = "Vec"
    /\ stored.records = <<>>
    /\ stored.event.eventType = "TRANSFER_COMPLETED"
    /\ deliveries[stored.event] = 2
    /\ Cardinality(RecordsOf(stored.event.reference_id)) = 2

ProjectedFrom(event) == {r \in transaction_events : r.event_data = event}

\* C19: the first processing of a TransferCompleted event projects exactly
\* two rows, both under the event's reference id and of the event's amount:
\* a TRANSFER_OUT row on the sender's wallet and user and a TRANSFER_IN row
\* on the receiver's wallet and user; the first processing of any other
\* event projects exactly one row, with the event's wallet, user, amount,
\* type and key.
C19_ProjectedRows ==
    [][\A c \in Consumers :
          (Returns(c) /\ deliveries[cmsg[c]] = 1) =>
              LET e == cmsg[c]
                  records == stored'.records
                  projected == {r \in transaction_events' : r.event_data = e}
              IN IF e.eventType = "TRANSFER_COMPLETED"
                 THEN /\ stored'.kind = "Vec"
                      /\ Len(records) = 2
                      /\ projected = {records[1], records[2]}
                      /\ Cardinality(projected) = 2
                      /\ records[1].event_type = "TRANSFER_OUT"
                      /\ records[1].wallet_id = e.from_wallet_id
                      /\ records[1].user_id = e.from_user_id
                      /\ records[2].event_type = "TRANSFER_IN"
                      /\ records[2].wallet_id = e.to_wallet_id
                      /\ records[2].user_id = e.to_user_id
                      /\ \A r \in projected :
                            r.transaction_id = e.reference_id /\ r.amount = e.amount
                 ELSE /\ stored'.kind = "Some"
                      /\ Len(records) = 1
                      /\ projected = {records[1]}
                      /\ records[1].event_type = e.eventType
                      /\ records[1].wallet_id = e.wallet_id
                      /\ records[1].user_id = e.user_id
                      /\ records[1].amount =
                            (IF e.eventType = "WALLET_FUNDED" THEN e.amount ELSE 0)
                      /\ records[1].transaction_id =
                            (IF e.eventType = "WALLET_FUNDED" THEN e.transaction_id
                             ELSE None)]_vars

\* A transfer has just been projected as two rows on two wallets.
C19_Witness ==
    /\ stored.kind = "Vec"
    /\ Len(stored.records) = 2
    /\ stored.records[1].wallet_id # stored.records[2].wallet_id
    /\ Cardinality(ProjectedFrom(stored.event)) = 2

\* The WALLET_CREATED rows of one wallet.
CreatedRecords(w) ==
    {r \in transaction_events : r.event_type = "WALLET_CREATED" /\ r.wallet_id = w}

\* C20: after a WalletCreated event has been processed once or more often,
\* the history holds exactly one WALLET_CREATED row for its wallet.
C20_CreatedRedelivery ==
    \A e \in Events :
        (e.eventType = "WALLET_CREATED" /\ deliveries[e] >= 1 /\ Settled(e)) =>
            Cardinality(CreatedRecords(e.wallet_id)) = 1

\* The second processing of a WalletCreated event has just ended, its insert
\* refused by the store.
C20_Witness ==
    /\ stored.event.eventType = "WALLET_CREATED"
    /\ stored.kind = "DatabaseError"
    /\ deliveries[stored.event] >= 2
    /\ Settled(stored.event)
    /\ Cardinality(CreatedRecords(stored.event.wallet_id)) = 1

\* The call p runs returns in this step.
CallReturns(p) == pc[p] # "idle" /\ pc'[p] = "idle"

\* C27: a fund on a wallet id that does not exist, and a transfer one of
\* whose wallet ids does not exist, fail with WalletNotFound, and only they
\* do; the failing call changes no wallet and no ledger row, its transaction
\* is gone and it holds no row lock, the lock on the existing wallet of the
\* pair included.
C27_WalletNotFound ==
    [][\A p \in Procs :
          LET missing ==
                  \/ pc[p] = "f_read" /\ req[p].wallet_id \notin DOMAIN wallets
                  \/ pc[p] = "t_lock_first" /\ first_id(p) \notin DOMAIN wallets
                  \/ pc[p] = "t_lock_second" /\ second_id(p) \notin DOMAIN wallets
          IN /\ (missing /\ pc'[p] # pc[p]) =>
                   /\ pc'[p] = "idle"
                   /\ response'.kind = "WalletNotFound"
             /\ (CallReturns(p) /\ response'.kind = "WalletNotFound") =>
                   /\ missing
                   /\ UNCHANGED db
                   /\ tx'[p] = NoTx
                   /\ \A w \in WalletIds : rowLock'[w] # p]_vars

\* A transfer found its second wallet missing after it had locked the first,
\* which holds money.
C27_Witness ==
    /\ response.kind = "WalletNotFound"
    /\ response.at = "t_lock_second"
    /\ \E w \in DOMAIN wallets : wallets[w].balance > 0
    /\ \A w \in WalletIds : rowLock[w] = NoProc

\* C28: create_wallet(owner) returns a wallet of that owner with balance 0 and
\* version 0 under an identity no existing wallet has, adds exactly that row
\* and changes no existing wallet.  (That one owner may hold several wallets
\* is the state C28_Witness describes.)
C28_CreateWallet ==
    [][\A p \in Procs, u \in Owners :
          CreateWallet(p, u) =>
              LET wallet == response'.wallet
              IN /\ response'.kind = "Ok"
                 /\ wallet.user_id = u
                 /\ wallet.balance = 0
                 /\ wallet.version = 0
                 /\ wallet.id \notin DOMAIN wallets
                 /\ DOMAIN wallets' = DOMAIN wallets \cup {wallet.id}
                 /\ wallets'[wallet.id] = wallet
                 /\ \A w \in DOMAIN wallets : wallets'[w] = wallets[w]
                 /\ UNCHANGED wallet_transactions]_vars

\* One owner holds two wallets, the first of them funded before the second
\* was created.
C28_Witness ==
    /\ response.at = "create"
    /\ \E w \in DOMAIN wallets :
          /\ w # response.wallet.id
          /\ wallets[w].user_id = response.wallet.user_id
          /\ wallets[w].balance > 0

\* The row locks the call p holds.
Held(p) == {w \in WalletIds : rowLock[w] = p}

\* C29: a transfer requests its two row locks in ascending identity order,
\* whichever wallet is the sender: it asks for the smaller identity while it
\* holds none, for the larger while it holds the smaller, and never takes
\* the lock of a wallet smaller than one it holds.
C29_AscendingLockOrder ==
    /\ [](\A p \in Procs :
             LET f == req[p].from_wallet_id
                 t == req[p].to_wallet_id
             IN /\ pc[p] = "t_lock_first" =>
                     /\ Held(p) = {}
                     /\ Wants(p) = Min({f, t})
                /\ pc[p] = "t_lock_second" =>
                     /\ Held(p) = {Min({f, t})}
                     /\ Wants(p) = f + t - Min({f, t})
                     /\ \A w \in Held(p) : w < Wants(p))
    /\ [][\A p \in Procs, w \in WalletIds :
              (req[p].op = "transfer" /\ rowLock[w] # p /\ rowLock'[w] = p) =>
                  \A v \in Held(p) : v < w]_vars

\* A transfer whose sender sorts after its receiver holds the receiver's lock
\* and asks for the sender's.
C29_Witness ==
    \E p \in Procs :
        /\ pc[p] = "t_lock_second"
        /\ req[p].from_wallet_id > req[p].to_wallet_id
        /\ rowLock[req[p].to_wallet_id] = p
        /\ Wants(p) = req[p].from_wallet_id

\* C30: the row locks of a transfer live as long as its transaction: a
\* transfer that ends, by commit, InsufficientBalance, WalletNotFound on the
\* second wallet or a storage error, holds no lock afterwards, and no lock is
\* ever held by a caller that is not inside a call.
C30_LocksEndWithTransaction ==
    /\ [](\A w \in WalletIds :
             rowLock[w] # NoProc => pc[rowLock[w]] # "idle")
    /\ [][\A p \in Procs :
              (req[p].op = "transfer" /\ CallReturns(p)) =>
                  \A w \in WalletIds : rowLock'[w] # p]_vars

\* A transfer that held both rows ended on a storage error and the rows are
\* free again.
C30_Witness ==
    /\ response.kind = "DatabaseError"
    /\ response.at \in {"t_update_from", "t_update_to", "t_insert_out", "t_insert_in"}
    /\ \A w \in WalletIds : rowLock[w] = NoProc

\* The history holds the rows of the event: both rows of a transfer, the one
\* row of any other event.
Projected(event) ==
    IF event.eventType = "TRANSFER_COMPLETED"
    THEN {r.event_type : r \in ProjectedFrom(event)} = {"TRANSFER_OUT", "TRANSFER_IN"}
    ELSE ProjectedFrom(event) # {}

\* C21: a payload that cannot be deserialized adds no history row and does
\* not stop or block the consumer: the turn of the loop that receives it ends
\* with SerializationError, the consumer ready for the next payload, and
\* every well-formed event of the partition, those after it included, is
\* eventually projected.
C21_MalformedSkipped ==
    /\ [][\A c \in Consumers :
              (cpc[c] = "idle" /\ position' # position /\ ~WellFormed(Log[position])) =>
                  /\ stored'.kind = "SerializationError"
                  /\ UNCHANGED transaction_events
                  /\ cpc'[c] = "idle"
                  /\ position' = position + 1]_vars
    /\ <>(\A o \in DOMAIN Log : WellFormed(Log[o]) => Projected(Log[o]))

\* A well-formed event that first occurs after a malformed payload has been
\* projected.
C21_Witness ==
    \E o1 \in DOMAIN Log, o2 \in DOMAIN Log :
        /\ o1 < o2
        /\ ~WellFormed(Log[o1])
        /\ WellFormed(Log[o2])
        /\ \A o \in 1..o1 : Log[o] # Log[o2]
        /\ Projected(Log[o2])

\* C22 (as claimed): when projecting a well-formed event fails with a storage
\* error the stream position does not pass that event: the consumer receives
\* no later payload of the partition, and the group commits no offset beyond
\* the event, before the event has been projected.
C22_FailedEventNotPassed ==
    /\ [][(position' = position + 1) =>
              \A o \in 1..(position - 1) : WellFormed(Log[o]) => Projected(Log[o])]_vars
    /\ [](\A o \in 1..(committed - 1) :
             (WellFormed(Log[o]) /\ Settled(Log[o])) => Projected(Log[o]))

\* The event concerns the wallet w: it is the wallet created or funded, or
\* the sender or the receiver of the transfer.
Concerns(event, w) ==
    event.wallet_id = w \/ event.from_wallet_id = w \/ event.to_wallet_id = w

\* C23 (as claimed): for every wallet W, all the events that concern W (its
\* creation, its funds, every transfer it sends or receives) are in the stream
\* under one partition key.
C23_OneKeyPerWallet ==
    \A w \in WalletIds : \A k1 \in WalletIds, k2 \in WalletIds :
        \A i1 \in DOMAIN topic[k1], i2 \in DOMAIN topic[k2] :
            (Concerns(topic[k1][i1], w) /\ Concerns(topic[k2][i2], w)) => k1 = k2

\* The record is in the partition of its key.
InTopic(event) ==
    \E i \in DOMAIN topic[PartitionKey(event)] : topic[PartitionKey(event)][i] = event

\* C24: a handler answers success only after the stream has acknowledged the
\* append of its operation's event: at every step in which a handler returns
\* Ok, the publisher had the acknowledgement and the event is in the
\* partition of its key.
C24_SuccessAfterAcknowledgement ==
    [][\A p \in Procs :
          (handler[p].stage # "" /\ handler'[p].stage = ""
              /\ response'.at = "respond" /\ response'.kind = "Ok") =>
              /\ handler[p].stage = "acknowledged"
              /\ handler[p].event # NoEvent
              /\ InTopic(handler[p].event)]_vars

\* A transfer has answered success and its event is in the stream.
C24_Witness ==
    /\ response.at = "respond"
    /\ response.kind = "Ok"
    /\ Len(response.transactions) = 2
    /\ \E k \in WalletIds : \E i \in DOMAIN topic[k] :
          /\ topic[k][i].eventType = "TRANSFER_COMPLETED"
          /\ topic[k][i].reference_id = response.transactions[1].reference_id

\* The mutation the event reports is committed: the wallet row of a creation,
\* the FUND row of a fund, the TRANSFER_OUT and TRANSFER_IN rows of a transfer.
Committed(event) ==
    IF event.eventType = "WALLET_CREATED"
    THEN /\ event.wallet_id \in DOMAIN wallets
         /\ wallets[event.wallet_id].user_id = event.user_id
    ELSE IF event.eventType = "WALLET_FUNDED"
    THEN \E r \in wallet_transactions :
            /\ r.id = event.transaction_id
            /\ r.wallet_id = event.wallet_id
            /\ r.amount = event.amount
            /\ r.transaction_type = "FUND"
    ELSE \E o \in wallet_transactions, i \in wallet_transactions :
            /\ o.transaction_type = "TRANSFER_OUT" /\ i.transaction_type = "TRANSFER_IN"
            /\ o.wallet_id = event.from_wallet_id /\ i.wallet_id = event.to_wallet_id
            /\ o.amount = event.amount /\ i.amount = event.amount
            /\ o.reference_id = event.reference_id /\ i.reference_id = event.reference_id

\* C25: a publish that fails or times out after the mutation committed is
\* not swallowed: a handler that has reached the publish ends either with
\* success, and then only after the acknowledgement, or with KafkaError;
\* in both cases the committed wallet and ledger rows stay as they are.
C25_PublishFailureSurfaces ==
    [][\A p \in Procs :
          (handler[p].stage \in {"publish", "acknowledged"} /\ handler'[p].stage = "") =>
              /\ response'.kind \in {"Ok", "KafkaError"}
              /\ response'.kind = "Ok" => handler[p].stage = "acknowledged"
              /\ response'.kind = "KafkaError" => response'.at = "publish"
              /\ Committed(handler[p].event)
              /\ UNCHANGED db]_vars

\* A fund answered KafkaError: its ledger row is committed, its event is not
\* in the stream.
C25_Witness ==
    /\ response.kind = "KafkaError"
    /\ \A p \in Procs : handler[p] = NoHandler
    /\ \E r \in wallet_transactions :
          /\ r.transaction_type = "FUND"
          /\ wallets[r.wallet_id].balance >= r.amount
          /\ \A k \in WalletIds : \A i \in DOMAIN topic[k] :
                topic[k][i].transaction_id # r.id

\* The kinds of error a store operation returns.
StoreErrors == {"InvalidAmount", "WalletNotFound", "OptimisticLockError",
                "InsufficientBalance", "DatabaseError"}

\* The committed mutation an event stands for.
MutationOf(event) ==
    <<event.eventType,
      IF event.eventType = "WALLET_CREATED" THEN event.wallet_id
      ELSE IF event.eventType = "WALLET_FUNDED" THEN event.transaction_id
      ELSE event.reference_id>>

\* C26: every event in the stream, and every event a handler is sending,
\* reports a mutation that is committed; no two records of the stream report
\* the same mutation; and a step in which a store operation returns an
\* error (InvalidAmount, WalletNotFound, OptimisticLockError,
\* InsufficientBalance, a storage fault) appends nothing and ends its handler
\* without an event to send.
C26_EventsOfCommittedMutations ==
    /\ [](\A k \in WalletIds : \A i \in DOMAIN topic[k] : Committed(topic[k][i]))
    /\ [](\A p \in Procs :
             handler[p].stage \in {"publish", "acknowledged"} => Committed(handler[p].event))
    /\ [](\A k1 \in WalletIds, k2 \in WalletIds :
             \A i1 \in DOMAIN topic[k1], i2 \in DOMAIN topic[k2] :
                 MutationOf(topic[k1][i1]) = MutationOf(topic[k2][i2]) =>
                     (k1 = k2 /\ i1 = i2))
    /\ [][response'.kind \in StoreErrors =>
              /\ UNCHANGED topic
              /\ \A p \in Procs : handler'[p] # handler[p] => handler'[p] = NoHandler]_vars

\* A transfer was refused for insufficient balance while the stream holds the
\* events of the mutations committed before it, and nothing is being sent.
C26_Witness ==
    /\ response.kind = "InsufficientBalance"
    /\ \A p \in Procs : handler[p] = NoHandler
    /\ \E k \in WalletIds : Len(topic[k]) >= 2

\* The committed ledger rows of the wallet w.
EntriesOn(w) == {r \in wallet_transactions : r.wallet_id = w}

\* C31: no update is lost between a fund and a transfer on one wallet.  A
\* fund whose read is older than the committed row (a transfer or a fund
\* committed on the wallet since) ends in OptimisticLockError and changes
\* nothing; a fund that commits adds its amount to the balance committed
\* just before, which is the row it read; a transfer that commits subtracts
\* its amount from the sender's and adds it to the receiver's balance
\* committed just before, whatever funds committed during the call.
C31_NoLostUpdate ==
    /\ [][\A p \in Procs :
              (pc[p] = "f_update" /\ pc'[p] # "f_update"
                  /\ tx[p].wallet.version # wallets[req[p].wallet_id].version) =>
                  /\ response'.kind = "OptimisticLockError"
                  /\ UNCHANGED db]_vars
    /\ [][\A p \in Procs :
              (pc[p] = "f_commit" /\ pc'[p] # "f_commit") =>
                  LET w == req[p].wallet_id
                  IN /\ tx[p].wallet = wallets[w]
                     /\ wallets'[w].balance = wallets[w].balance + req[p].amount
                     /\ \A v \in DOMAIN wallets \ {w} : wallets'[v] = wallets[v]]_vars
    /\ [][\A p \in Procs :
              (pc[p] = "t_commit" /\ pc'[p] # "t_commit" /\ response'.kind = "Ok") =>
                  LET f == req[p].from_wallet_id
                      t == req[p].to_wallet_id
                  IN /\ wallets'[f].balance = wallets[f].balance - req[p].amount
                     /\ wallets'[t].balance = wallets[t].balance + req[p].amount]_vars

\* A fund has read a wallet on which a transfer, and no fund, has committed
\* since: its read is older than the committed row.
C31_Witness ==
    \E p \in Procs :
        /\ pc[p] = "f_update"
        /\ tx[p].wallet.version < wallets[req[p].wallet_id].version
        /\ tx[p].wallet.balance # wallets[req[p].wallet_id].balance
        /\ EntriesOn(req[p].wallet_id) # {}
        /\ \A r \in EntriesOn(req[p].wallet_id) : r.transaction_type = "TRANSFER_IN"

\* The sum of the balances of the wallets S of the table ws.
RECURSIVE SumBalances(_, _)
SumBalances(ws, S) ==
    IF S = {} THEN 0
    ELSE LET w == CHOOSE w \in S : TRUE
         IN ws[w].balance + SumBalances(ws, S \ {w})

TotalBalance(ws) == SumBalances(ws, DOMAIN ws)

\* C32: money is conserved.  In every committed state the balances of all
\* wallets add up to the amounts of all committed Fund rows, and the commit
\* of a transfer changes balances without changing their sum.
C32_MoneyConserved ==
    /\ [](TotalBalance(wallets) =
             SumAmounts({r \in wallet_transactions : r.transaction_type = "FUND"}))
    /\ [][\A p \in Procs :
              (pc[p] = "t_commit" /\ pc'[p] # "t_commit" /\ response'.kind = "Ok") =>
                  /\ wallets' # wallets
                  /\ TotalBalance(wallets') = TotalBalance(wallets)]_vars

\* A transfer has committed and its receiver holds the money.
C32_Witness ==
    /\ response.kind = "Ok"
    /\ Len(response.transactions) = 2
    /\ wallets[response.transactions[2].wallet_id].balance > 0
    /\ TotalBalance(wallets) > 0

\* C33: in every committed state the version of a wallet is the number of
\* committed ledger rows on it, whatever their type.
C33_VersionCountsEntries ==
    \A w \in DOMAIN wallets : wallets[w].version = Cardinality(EntriesOn(w))

\* A wallet on which a fund, an outgoing and an incoming transfer committed.
C33_Witness ==
    \E w \in DOMAIN wallets :
        /\ {r.transaction_type : r \in EntriesOn(w)} = {"FUND", "TRANSFER_OUT", "TRANSFER_IN"}
        /\ wallets[w].version = 3

\* C34 (as claimed): the Wallet a successful fund_wallet returns describes
\* the state that fund committed: the balance it read plus the amount, the
\* version it read plus one, whatever commits concurrently on the wallet.
C34_ReturnedWalletIsOwnCommit ==
    [][\A p \in Procs :
          (pc[p] = "f_fetch" /\ pc'[p] = "idle" /\ response'.kind = "Ok") =>
              /\ response'.wallet.balance = tx[p].wallet.balance + req[p].amount
              /\ response'.wallet.version = tx[p].wallet.version + 1]_vars

\* C35 (as claimed): the new_balance of a WalletFunded event is the wallet's
\* balance right after the commit of the fund its transaction_id names, the
\* balance that fund read plus the event's amount, under every interleaving.
C35_EventBalanceIsOwnCommit ==
    [][\A p \in Procs :
          (handler[p].stage = "call" /\ handler'[p].stage = "publish"
              /\ handler'[p].event.eventType = "WALLET_FUNDED") =>
              /\ handler'[p].event.transaction_id = tx[p].transaction.id
              /\ handler'[p].event.amount = req[p].amount
              /\ handler'[p].event.new_balance =
                     tx[p].wallet.balance + handler'[p].event.amount]_vars

\* The rows of one wallet are inserted under the wallet's row lock, which is
\* held until the commit, so on one wallet the ids of the model follow the
\* order of the commits.
LedgerIdsFollowCommits ==
    [][\A r \in NewRows : \A q \in wallet_transactions :
          q.wallet_id = r.wallet_id => q.id < r.id]_vars

\* The place of an event's mutation among the commits on its primary wallet:
\* the creation first, then the ledger rows in the order of their ids.
CommitRank(event) ==
    IF event.eventType = "WALLET_CREATED" THEN 0
    ELSE IF event.eventType = "WALLET_FUNDED" THEN event.transaction_id
    ELSE (CHOOSE r \in wallet_transactions :
             /\ r.transaction_type = "TRANSFER_OUT"
             /\ r.reference_id = event.reference_id).id

\* C36 (as claimed): the events of one wallet are in its partition in the
\* order in which their mutations committed, also when the handlers of
\* several requests run concurrently.
C36_StreamInCommitOrder ==
    \A k \in WalletIds : \A i \in DOMAIN topic[k], j \in DOMAIN topic[k] :
        i < j => CommitRank(topic[k][i]) < CommitRank(topic[k][j])

\* C37 (as claimed): the projection of a transfer is all or nothing across
\* failures: whatever storage failure or crash came before, once a delivery
\* of the event has been processed without error the history holds both
\* records of its reference id, so that it is never left with the outgoing
\* record alone.
C37_TransferProjectionRepaired ==
    [][\A c \in Consumers :
          (Returns(c) /\ cmsg[c].eventType = "TRANSFER_COMPLETED"
              /\ stored'.kind = "Vec") =>
              Cardinality({r \in transaction_events' :
                              r.transaction_id = cmsg[c].reference_id}) = 2]_vars

\* C38 (as claimed): under fair scheduling and with storage failures that
\* are only transient, every well-formed event of the stream is eventually
\* reflected in the history, one record for a creation or a fund, two for a
\* transfer, and stays so.
C38_EventualProjection ==
    <>[](\A o \in DOMAIN Log : WellFormed(Log[o]) => Projected(Log[o]))

\* The committed ledger rows a history record stands for: a FUND row with
\* the record's key as its id, or a transfer row of the record's direction
\* with the record's key as its reference id; same wallet, same amount.
LedgerEntriesOf(r) ==
    {t \in wallet_transactions :
        /\ t.wallet_id = r.wallet_id
        /\ t.amount = r.amount
        /\ IF r.event_type = "WALLET_FUNDED"
           THEN t.transaction_type = "FUND" /\ t.id = r.transaction_id
           ELSE t.transaction_type = r.event_type /\ t.reference_id = r.transaction_id}

\* C39: the history is a faithful projection of the ledger.  Every history
\* record of type WALLET_FUNDED, TRANSFER_OUT or TRANSFER_IN corresponds to
\* exactly one committed ledger entry with the same wallet, the same amount
\* and the matching key; there is no record for a mutation that did not
\* commit.
C39_HistoryFaithful ==
    \A r \in transaction_events :
        r.event_type \in {"WALLET_FUNDED", "TRANSFER_OUT", "TRANSFER_IN"} =>
            Cardinality(LedgerEntriesOf(r)) = 1

\* A fund and both sides of a transfer have been projected from events the
\* handlers published.
C39_Witness ==
    /\ \E r \in transaction_events : r.event_type = "WALLET_FUNDED"
    /\ \E r \in transaction_events : r.event_type = "TRANSFER_OUT"
    /\ \E r \in transaction_events : r.event_type = "TRANSFER_IN"
====
